---------------------------- MODULE Spec2Model ----------------------------
(***************************************************************************)
(* Model of the slice-acquisition solver base class                        *)
(* (src/src/py/reconstruction/solver/Solver.py) and of the image readers    *)
(* (src/niftymic/base/data_reader.py).                                      *)
(*                                                                         *)
(* Numbers are integers.  Images are records                                *)
(*   [size, origin, spacing, nda]                                           *)
(* with nda the voxel array flattened in the order numpy's flatten() gives  *)
(* for an array of shape size[::-1] (x runs fastest).  Directions are the   *)
(* identity: every grid of the model is axis aligned.  np.sqrt(alpha) is    *)
(* exact because alpha ranges over perfect squares.                         *)
(***************************************************************************)
EXTENDS Integers, Sequences, FiniteSets, TLC

VARIABLES
    stacks,                 \* self._stacks: sequence of Stack objects
    HR_volume,              \* self._HR_volume: image record
    minimizer,              \* self._minimizer
    deconvolution_mode,     \* self._deconvolution_mode
    predefined_covariance,  \* self._predefined_covariance
    alpha_cut,              \* self._alpha_cut
    filters,                \* [fw, adj]: the two shared ITK filter objects
    N_total_slice_voxels,   \* self._N_total_slice_voxels
    N_voxels_HR_volume,     \* self._N_voxels_HR_volume
    last,                   \* what the last call computed
    iter_max,               \* self._iter_max
    statistics,             \* self._elapsed_time_sec, self._residual_ell2,
                            \* self._residual_prior
    evaluations,            \* per-slice evaluations in progress, and the
                            \* images in the pipelines of the two filters
    reader                  \* an ImageDataReader object

vars == <<stacks, HR_volume, minimizer, deconvolution_mode,
          predefined_covariance, alpha_cut, filters, N_total_slice_voxels,
          N_voxels_HR_volume, last, iter_max, statistics, evaluations,
          reader>>

config == <<stacks, HR_volume, deconvolution_mode, N_total_slice_voxels,
            N_voxels_HR_volume>>

\* the state the calls of the linear system and of the filters do not touch
apart == <<iter_max, statistics, evaluations, reader>>

-----------------------------------------------------------------------------
(* Bounds of the model *)

\* longest stack list given to the constructor
MaxStacks == 2
\* most images a read finds, and most calls of read_data on one reader
MaxFiles == 2
MaxReads == 2
\* largest magnitude of an entry of an iterate an external solver hands back
MaxIterate == 1

-----------------------------------------------------------------------------
(* numpy helpers *)

RECURSIVE SumTo(_, _)
SumTo(f, n) == IF n = 0 THEN 0 ELSE f[n] + SumTo(f, n - 1)

Sum(v) == SumTo(v, Len(v))

\* np.dot / np.sum(u*v) of two 1D arrays of the same length
Dot(u, v) == Sum([k \in 1..Len(u) |-> u[k] * v[k]])

Zeros(n) == [k \in 1..n |-> 0]

Min(a, b) == IF a < b THEN a ELSE b

Max(a, b) == IF a < b THEN b ELSE a

\* np.array(size).prod()
Prod3(s) == s[1] * s[2] * s[3]

\* a[lo:hi] with Python's clipping of the bounds (0-based, hi exclusive)
PySlice(a, lo, hi) == SubSeq(a, Min(lo, Len(a)) + 1, Min(hi, Len(a)))

\* np.sqrt on a perfect square
Sqrt(a) == CHOOSE r \in 0..a : r * r = a

\* c * v
Scale(c, v) == [k \in 1..Len(v) |-> c * v[k]]

\* u + v, same length
VecAdd(u, v) == [k \in 1..Len(u) |-> u[k] + v[k]]

\* np.clip(x, 0, np.inf)
Clip(x) == [k \in 1..Len(x) |-> Max(x[k], 0)]

\* np.diag of three values, flattened row by row
Diag(v) == <<v[1], 0, 0, 0, v[2], 0, 0, 0, v[3]>>

-----------------------------------------------------------------------------
(* Images and grids *)

Grid(img) == [size |-> img.size, origin |-> img.origin, spacing |-> img.spacing]

NVox(g) == Prod3(g.size)

\* index (x, y, z) of the k-th element (1-based) of the flattened array
Idx3(size, k) ==
    << (k - 1) % size[1],
       ((k - 1) \div size[1]) % size[2],
       (k - 1) \div (size[1] * size[2]) >>

\* physical position of the k-th voxel of a grid
Pos(g, k) ==
    << g.origin[1] + g.spacing[1] * ((k - 1) % g.size[1]),
       g.origin[2] + g.spacing[2] * (((k - 1) \div g.size[1]) % g.size[2]),
       g.origin[3] + g.spacing[3] * ((k - 1) \div (g.size[1] * g.size[2])) >>

\* physical positions of all voxels of a grid, in the order of the array
Positions(g) == [k \in 1..NVox(g) |-> Pos(g, k)]

\* an image with the geometry of a grid
Image(g, nda) ==
    [size |-> g.size, origin |-> g.origin, spacing |-> g.spacing, nda |-> nda]

\* output parameters of an ITK filter before SetOutputParametersFromImage
NoGrid == [size |-> <<0, 0, 0>>, origin |-> <<0, 0, 0>>, spacing |-> <<1, 1, 1>>]

\* covariance of an ITK filter before SetCovariance
NoCovariance == Diag(<<1, 1, 1>>)

-----------------------------------------------------------------------------
(* Stack and Slice objects handed to the constructor.  A Stack holds its    *)
(* image (sitk) and its slices; slice number s of a stack image of size     *)
(* (nx, ny, nz) is the image of size (nx, ny, 1) at z-index s.  A stack     *)
(* whose slices were partly rejected holds fewer slices than nz.            *)

\* intensity of voxel k of slice s
Intensity(s, k) == 1 + 2 * s + k

\* Slice object: image and binary mask on the same grid
MakeSlice(kind, s) ==
    LET g == [size    |-> <<kind.size[1], kind.size[2], 1>>,
              origin  |-> <<kind.origin[1], kind.origin[2],
                            kind.origin[3] + kind.spacing[3] * s>>,
              spacing |-> kind.spacing]
    IN  [itk      |-> Image(g, [k \in 1..NVox(g) |-> Intensity(s, k)]),
         itk_mask |-> Image(g, [k \in 1..NVox(g) |->
                                   IF k = kind.masked THEN 0 ELSE 1])]

\* Stack object
MakeStack(kind) ==
    [sitk   |-> [size |-> kind.size, origin |-> kind.origin,
                 spacing |-> kind.spacing],
     slices |-> [j \in 1..Len(kind.kept) |-> MakeSlice(kind, kind.kept[j])]]

\* the stacks the constructor is given: size of the stack image, z-indices
\* of the slices it holds, geometry, and the voxel its masks rule out (0: none)
StackKinds ==
    { [size |-> <<2, 1, 1>>, kept |-> <<0>>, origin |-> <<0, 0, 0>>,
       spacing |-> <<1, 1, 2>>, masked |-> 0],
      [size |-> <<1, 1, 2>>, kept |-> <<0, 1>>, origin |-> <<2, 0, 0>>,
       spacing |-> <<1, 1, 1>>, masked |-> 0],
      [size |-> <<2, 1, 2>>, kept |-> <<1>>, origin |-> <<0, 0, 0>>,
       spacing |-> <<1, 1, 1>>, masked |-> 2] }

StackLists ==
    UNION { [1..n -> {MakeStack(k) : k \in StackKinds}] : n \in 0..MaxStacks }

\* the HR volumes the constructor is given (isotropic, unit spacing)
HRSizes == { <<2, 1, 2>>, <<2, 2, 1>> }

MakeHR(size) ==
    Image([size |-> size, origin |-> <<0, 0, 0>>, spacing |-> <<1, 1, 1>>],
          Zeros(Prod3(size)))

\* stack.get_number_of_slices()
get_number_of_slices(stack) == Len(stack.slices)

-----------------------------------------------------------------------------
(* base.PSF: covariance of the slice's blur in HR volume coordinates.       *)
(* With identity directions the rotation into volume axes is the identity.  *)

get_gaussian_PSF_covariance_matrix_HR_volume_coordinates_from_direction_and_spacing(spacing, HR) ==
    Diag(<<spacing[1] * spacing[1], spacing[2] * spacing[2],
           spacing[3] * spacing[3]>>)

get_gaussian_PSF_covariance_matrix_HR_volume_coordinates(slice, HR) ==
    get_gaussian_PSF_covariance_matrix_HR_volume_coordinates_from_direction_and_spacing(
        slice.itk.spacing, HR)

get_gaussian_PSF_covariance_matrix_HR_volume_coordinates_from_covariances(slice, HR, cov) ==
    cov.v

-----------------------------------------------------------------------------
(* The oriented Gaussian interpolate filter and its adjoint: a Gaussian     *)
(* kernel of the filter's covariance, cut off at Alpha standard deviations  *)
(* along every axis, between the positions of the input's voxels and of     *)
(* the output grid's voxels.                                                *)

\* squared cut-off distance along axis c (flattened 3x3 covariance)
Cut2(cov, alpha, c) == alpha * alpha * cov[4 * (c - 1) + 1]

Weight(cov, alpha, p, q) ==
    LET d1 == (p[1] - q[1]) * (p[1] - q[1])
        d2 == (p[2] - q[2]) * (p[2] - q[2])
        d3 == (p[3] - q[3]) * (p[3] - q[3])
        c1 == Cut2(cov, alpha, 1)
        c2 == Cut2(cov, alpha, 2)
        c3 == Cut2(cov, alpha, 3)
    IN  IF d1 <= c1 /\ d2 <= c2 /\ d3 <= c3
        THEN 1 + (c1 - d1) + (c2 - d2) + (c3 - d3)
        ELSE 0

\* OrientedGaussianInterpolateImageFilter: Update() on input img
OrientedGaussianInterpolateImageFilter(f, img) ==
    LET pin  == Positions(img)
        pout == Positions(f.Output)
    IN  Image(f.Output,
              [q \in 1..NVox(f.Output) |->
                  Sum([v \in 1..NVox(img) |->
                          Weight(f.Covariance, f.Alpha, pin[v], pout[q])
                          * img.nda[v]])])

\* AdjointOrientedGaussianInterpolateImageFilter: Update() on input img
AdjointOrientedGaussianInterpolateImageFilter(f, img) ==
    LET pin  == Positions(img)
        pout == Positions(f.Output)
    IN  Image(f.Output,
              [v \in 1..NVox(f.Output) |->
                  Sum([q \in 1..NVox(img) |->
                          Weight(f.Covariance, f.Alpha, pout[v], pin[q])
                          * img.nda[q]])])

-----------------------------------------------------------------------------
(* reconstruction.solver.DifferentialOperations: forward differences of     *)
(* step 1 along one axis of an array of the given size (zero beyond the     *)
(* last index), and the transposed differences.  Axis 1 is x, 2 is y, 3 z.  *)

Flat(size, p) == 1 + p[1] + size[1] * (p[2] + size[2] * p[3])

DiffOp(size, u, c) ==
    [k \in 1..Prod3(size) |->
        LET p == Idx3(size, k)
        IN  (IF p[c] + 1 < size[c]
             THEN u[Flat(size, [p EXCEPT ![c] = @ + 1])] ELSE 0) - u[k]]

DiffOpAdj(size, w, c) ==
    [k \in 1..Prod3(size) |->
        LET p == Idx3(size, k)
        IN  (IF p[c] >= 1
             THEN w[Flat(size, [p EXCEPT ![c] = @ - 1])] ELSE 0) - w[k]]

Dx(size, u) == DiffOp(size, u, 1)
Dy(size, u) == DiffOp(size, u, 2)
Dz(size, u) == DiffOp(size, u, 3)
Dx_adj(size, w) == DiffOpAdj(size, w, 1)
Dy_adj(size, w) == DiffOpAdj(size, w, 2)
Dz_adj(size, w) == DiffOpAdj(size, w, 3)

-----------------------------------------------------------------------------
(* Solver: filter configuration *)

Modes == {"full_3D", "only_in_plane", "predefined_covariance"}

\* self._deconvolution_only_in_plane_through_plane_spacing: 1e-6, which is 0
\* on the integer grid of the model
deconvolution_only_in_plane_through_plane_spacing == 0

_update_oriented_adjoint_oriented_Gaussian_image_filters_full_3D(slice, f) ==
    LET Cov_HR_coord ==
            get_gaussian_PSF_covariance_matrix_HR_volume_coordinates(
                slice, HR_volume)
    IN  [fw  |-> [f.fw EXCEPT !.Covariance = Cov_HR_coord,
                              !.Output = Grid(slice.itk)],
         adj |-> [f.adj EXCEPT !.Covariance = Cov_HR_coord]]

\* a variant of the in-plane update that leaves the adjoint filter's
\* covariance as it was
_update_in_plane_forward_only(slice, f) ==
    [fw  |-> [f.fw EXCEPT
                !.Covariance =
                    get_gaussian_PSF_covariance_matrix_HR_volume_coordinates_from_direction_and_spacing(
                        [slice.itk.spacing EXCEPT
                           ![3] = deconvolution_only_in_plane_through_plane_spacing],
                        HR_volume),
                !.Output = Grid(slice.itk)],
     adj |-> f.adj]

_update_oriented_adjoint_oriented_Gaussian_image_filters_in_plane(slice, f) ==
    LET spacing == [slice.itk.spacing EXCEPT
                      ![3] = deconvolution_only_in_plane_through_plane_spacing]
        Cov_HR_coord ==
            get_gaussian_PSF_covariance_matrix_HR_volume_coordinates_from_direction_and_spacing(
                spacing, HR_volume)
    IN  [fw  |-> [f.fw EXCEPT !.Covariance = Cov_HR_coord,
                              !.Output = Grid(slice.itk)],
         adj |-> [f.adj EXCEPT !.Covariance = Cov_HR_coord]]

_update_oriented_adjoint_oriented_Gaussian_image_filters_predefined_covariance(slice, f) ==
    LET Cov_HR_coord ==
            get_gaussian_PSF_covariance_matrix_HR_volume_coordinates_from_covariances(
                slice, HR_volume, predefined_covariance)
    IN  [fw  |-> [f.fw EXCEPT !.Covariance = Cov_HR_coord,
                              !.Output = Grid(slice.itk)],
         adj |-> [f.adj EXCEPT !.Covariance = Cov_HR_coord]]

\* the dictionary self._update_oriented_adjoint_oriented_Gaussian_image_filters
_update_oriented_adjoint_oriented_Gaussian_image_filters(mode, slice, f) ==
    CASE mode = "full_3D" ->
           _update_oriented_adjoint_oriented_Gaussian_image_filters_full_3D(slice, f)
      [] mode = "only_in_plane" ->
           _update_oriented_adjoint_oriented_Gaussian_image_filters_in_plane(slice, f)
      [] mode = "predefined_covariance" ->
           _update_oriented_adjoint_oriented_Gaussian_image_filters_predefined_covariance(slice, f)

-----------------------------------------------------------------------------
(* Solver: operators.  Every operator that uses the shared filters takes    *)
(* their state f and returns the state it leaves them in (filt).  exc is    *)
(* the exception the call ends with, "" when it returns.                    *)

Raise(e, f) == [out |-> <<>>, filt |-> f, exc |-> e]

\* nda_vec.reshape(shape) of an image of the reference's geometry
_get_itk_image_from_array_vec(nda_vec, image_itk_ref) ==
    IF Len(nda_vec) = Prod3(image_itk_ref.size)
    THEN [img |-> Image(image_itk_ref, nda_vec), exc |-> ""]
    ELSE [img |-> Image(image_itk_ref, <<>>), exc |-> "ValueError"]

\* self._filter_oriented_Gaussian: SetInput, UpdateLargestPossibleRegion,
\* GetOutput, DisconnectPipeline
_Ak_filter(HR_volume_itk, f1) ==
    [img  |-> OrientedGaussianInterpolateImageFilter(f1.fw, HR_volume_itk),
     filt |-> f1, exc |-> ""]

\* A_k x
_Ak(HR_volume_itk, slice_k, f) ==
    _Ak_filter(HR_volume_itk,
               _update_oriented_adjoint_oriented_Gaussian_image_filters(
                   deconvolution_mode, slice_k, f))

\* self._filter_adjoint_oriented_Gaussian: SetInput, Update, GetOutput,
\* DisconnectPipeline
_Ak_adj_filter(slice_itk, f1) ==
    [img  |-> AdjointOrientedGaussianInterpolateImageFilter(f1.adj, slice_itk),
     filt |-> f1, exc |-> ""]

\* A_k^* y
_Ak_adj(slice_itk, slice_k, f) ==
    _Ak_adj_filter(slice_itk,
                   _update_oriented_adjoint_oriented_Gaussian_image_filters(
                       deconvolution_mode, slice_k, f))

\* M_k: itk.MultiplyImageFilter of the slice's mask (input 1) and the image
\* (input 2); ITK refuses inputs that do not share one grid
_Mk(slice_itk, slice_k) ==
    IF Grid(slice_k.itk_mask) = Grid(slice_itk)
    THEN [img |-> Image(slice_k.itk_mask,
                        [k \in 1..NVox(slice_itk) |->
                            slice_k.itk_mask.nda[k] * slice_itk.nda[k]]),
          exc |-> ""]
    ELSE [img |-> Image(slice_k.itk_mask, <<>>), exc |-> "RuntimeError"]

\* the image m of a masking step, with the filters as they are left
WithFilters(m, f) == [img |-> m.img, filt |-> f, exc |-> m.exc]

\* a variant of the masking step of _Mk_Ak that hands on A_k x unmasked
_Mk_Ak_unmasked(Ak_HR_volume_itk, slice_k) == Ak_HR_volume_itk

\* return self._Mk(Ak_HR_volume_itk, slice_k)
_Mk_Ak_mask(Ak_HR_volume_itk, slice_k) ==
    WithFilters(_Mk(Ak_HR_volume_itk.img, slice_k), Ak_HR_volume_itk.filt)

\* M_k A_k x
_Mk_Ak(HR_volume_itk, slice_k, f) ==
    _Mk_Ak_mask(_Ak(HR_volume_itk, slice_k, f), slice_k)

\* return self._Ak_adj(Mk_slice_itk, slice_k)
_Ak_adj_Mk_adj(Mk_slice_itk, slice_k, f) ==
    IF Mk_slice_itk.exc # "" THEN WithFilters(Mk_slice_itk, f)
    ELSE _Ak_adj(Mk_slice_itk.img, slice_k, f)

\* A_k^* M_k y_k
_Ak_adj_Mk(slice_itk, slice_k, f) ==
    _Ak_adj_Mk_adj(_Mk(slice_itk, slice_k), slice_k, f)

\* D x
_D(HR_nda_vec) ==
    LET N_voxels == N_voxels_HR_volume
        size == HR_volume.size
    IN  IF Len(HR_nda_vec) # Prod3(size)
        THEN [out |-> <<>>, exc |-> "ValueError"]
        ELSE [out |-> Dx(size, HR_nda_vec) \o Dy(size, HR_nda_vec)
                        \o Dz(size, HR_nda_vec),
              exc |-> ""]

\* a variant of D^* that applies Dx_adj to the second and Dy_adj to the first
\* part of the regularization segment
_D_adj_swapped(y) ==
    IF Len(y) # N_total_slice_voxels + 3 * N_voxels_HR_volume
    THEN [out |-> <<>>, exc |-> "ValueError"]
    ELSE [out |-> VecAdd(VecAdd(
                      Dx_adj(HR_volume.size,
                             PySlice(y, N_total_slice_voxels + N_voxels_HR_volume,
                                     N_total_slice_voxels + 2 * N_voxels_HR_volume)),
                      Dy_adj(HR_volume.size,
                             PySlice(y, N_total_slice_voxels,
                                     N_total_slice_voxels + N_voxels_HR_volume))),
                      Dz_adj(HR_volume.size,
                             PySlice(y, N_total_slice_voxels + 2 * N_voxels_HR_volume,
                                     N_total_slice_voxels + 3 * N_voxels_HR_volume))),
          exc |-> ""]

\* D^* y
_D_adj(stacked_slices_nda_vec) ==
    LET N_vol == N_voxels_HR_volume
        N0 == N_total_slice_voxels
        size == HR_volume.size
        slice_x_nda_vec == PySlice(stacked_slices_nda_vec, N0, N0 + N_vol)
        slice_y_nda_vec == PySlice(stacked_slices_nda_vec, N0 + N_vol, N0 + 2 * N_vol)
        slice_z_nda_vec == PySlice(stacked_slices_nda_vec, N0 + 2 * N_vol, N0 + 3 * N_vol)
    IN  IF \E v \in {slice_x_nda_vec, slice_y_nda_vec, slice_z_nda_vec} :
               Len(v) # Prod3(size)
        THEN [out |-> <<>>, exc |-> "ValueError"]
        ELSE [out |-> VecAdd(VecAdd(Dx_adj(size, slice_x_nda_vec),
                                    Dy_adj(size, slice_y_nda_vec)),
                             Dz_adj(size, slice_z_nda_vec)),
              exc |-> ""]

-----------------------------------------------------------------------------
(* Solver: the walks over every slice of every stack.  A walk's state is    *)
(* the array it fills (vec), the running offset i_min, the filters, the     *)
(* index ranges it has used so far (segs) and the pending exception; a walk *)
(* with a pending exception does nothing more.                              *)

\* the pairs (i, j) of "for i in range(N_stacks): for j in
\* range(stack.get_number_of_slices())", in the order the loops visit them
RECURSIVE LoopOrder(_, _)
LoopOrder(S, i) ==
    IF i > Len(S) THEN <<>>
    ELSE [j \in 1..get_number_of_slices(S[i]) |-> <<i, j>>] \o LoopOrder(S, i + 1)

\* a[lo:hi] = v (numpy refuses a value of another length than the target)
SetSlice(a, lo, hi, v) ==
    IF Len(PySlice(a, lo, hi)) = Len(v)
    THEN [out |-> [k \in 1..Len(a) |->
                      IF lo < k /\ k <= hi THEN v[k - lo] ELSE a[k]],
          exc |-> ""]
    ELSE [out |-> a, exc |-> "ValueError"]

WalkStart(n, f) ==
    [vec |-> Zeros(n), i_min |-> 0, filt |-> f, segs |-> <<>>, exc |-> ""]

Seg(i, j, lo, hi) == [i |-> i, j |-> j, i_min |-> lo, i_max |-> hi]

\* N_slice_voxels = np.array(slices[0].sitk.GetSize()).prod()
N_slice_voxels(i) == Prod3(stacks[i].slices[1].itk.size)

\* My[i_min:i_max] = slice_nda_vec; i_min = i_max
_get_M_y_fill(st, i, j, i_max, w) ==
    IF w.exc # "" THEN [st EXCEPT !.exc = w.exc]
    ELSE [st EXCEPT !.vec = w.out, !.i_min = i_max,
                    !.segs = Append(@, Seg(i, j, st.i_min, i_max))]

\* slice_itk = self._Mk(slice_k.itk, slice_k), then the assignment
_get_M_y_slice(st, i, j, i_max, slice_itk) ==
    IF slice_itk.exc # "" THEN [st EXCEPT !.exc = slice_itk.exc]
    ELSE _get_M_y_fill(st, i, j, i_max,
                       SetSlice(st.vec, st.i_min, i_max, slice_itk.img.nda))

\* one pass of the inner loop of _get_M_y
_get_M_y_body(st, i, j) ==
    IF st.exc # "" THEN st
    ELSE _get_M_y_slice(st, i, j, st.i_min + N_slice_voxels(i),
                        _Mk(stacks[i].slices[j].itk, stacks[i].slices[j]))

RECURSIVE _get_M_y_loop(_, _, _)
_get_M_y_loop(order, n, f) ==
    IF n = 0 THEN WalkStart(N_total_slice_voxels, f)
    ELSE _get_M_y_body(_get_M_y_loop(order, n - 1, f), order[n][1], order[n][2])

\* M y: all masked slices stacked to one array
_get_M_y(f) == _get_M_y_loop(LoopOrder(stacks, 1), Len(LoopOrder(stacks, 1)), f)

\* MA_x[i_min:i_max] = slice_nda.flatten(); i_min = i_max
_MA_fill(st, i, j, i_max, f1, w) ==
    IF w.exc # "" THEN [st EXCEPT !.exc = w.exc, !.filt = f1]
    ELSE [st EXCEPT !.vec = w.out, !.i_min = i_max, !.filt = f1,
                    !.segs = Append(@, Seg(i, j, st.i_min, i_max))]

\* slice_itk = self._Mk_Ak(x_itk, slices[j]), then the assignment
_MA_slice(st, i, j, i_max, slice_itk) ==
    IF slice_itk.exc # ""
    THEN [st EXCEPT !.exc = slice_itk.exc, !.filt = slice_itk.filt]
    ELSE _MA_fill(st, i, j, i_max, slice_itk.filt,
                  SetSlice(st.vec, st.i_min, i_max, slice_itk.img.nda))

\* one pass of the inner loop of _MA
_MA_body(st, i, j, x_itk) ==
    IF st.exc # "" THEN st
    ELSE _MA_slice(st, i, j, st.i_min + N_slice_voxels(i),
                   _Mk_Ak(x_itk, stacks[i].slices[j], st.filt))

RECURSIVE _MA_loop(_, _, _, _)
_MA_loop(x_itk, order, n, f) ==
    IF n = 0 THEN WalkStart(N_total_slice_voxels, f)
    ELSE _MA_body(_MA_loop(x_itk, order, n - 1, f),
                  order[n][1], order[n][2], x_itk)

\* the loops of _MA on the image x_itk
_MA_walk(x_itk, f) ==
    IF x_itk.exc # "" THEN [WalkStart(0, f) EXCEPT !.exc = x_itk.exc]
    ELSE _MA_loop(x_itk.img, LoopOrder(stacks, 1),
                  Len(LoopOrder(stacks, 1)), f)

\* M A x
_MA(HR_nda_vec, f) ==
    _MA_walk(_get_itk_image_from_array_vec(HR_nda_vec, HR_volume), f)

\* A_adj_M_y = A_adj_M_y + Ak_adj_Mk_slice_nda_vec; i_min = i_max
_A_adj_M_add(st, i, j, i_max, Ak_adj_Mk_slice_itk) ==
    IF Ak_adj_Mk_slice_itk.exc # ""
    THEN [st EXCEPT !.exc = Ak_adj_Mk_slice_itk.exc]
    ELSE [st EXCEPT !.vec = VecAdd(@, Ak_adj_Mk_slice_itk.img.nda),
                    !.i_min = i_max,
                    !.filt = Ak_adj_Mk_slice_itk.filt,
                    !.segs = Append(@, Seg(i, j, st.i_min, i_max))]

\* Ak_adj_Mk_slice_itk = self._Ak_adj_Mk(slice_itk, slice_k), then the sum
_A_adj_M_slice(st, i, j, i_max, slice_itk) ==
    IF slice_itk.exc # "" THEN [st EXCEPT !.exc = slice_itk.exc]
    ELSE _A_adj_M_add(st, i, j, i_max,
                      _Ak_adj_Mk(slice_itk.img, stacks[i].slices[j], st.filt))

\* slice_itk = self._get_itk_image_from_array_vec(
\*     stacked_slices_nda_vec[i_min:i_max], slice_k.itk)
_A_adj_M_extract(st, i, j, i_max, stacked_slices_nda_vec) ==
    _A_adj_M_slice(st, i, j, i_max,
                   _get_itk_image_from_array_vec(
                       PySlice(stacked_slices_nda_vec, st.i_min, i_max),
                       stacks[i].slices[j].itk))

\* a variant of the pass that takes every stack's slice length from the
\* first stack
_A_adj_M_body_first_stack(st, i, j, stacked_slices_nda_vec) ==
    IF st.exc # "" THEN st
    ELSE _A_adj_M_extract(st, i, j, st.i_min + N_slice_voxels(1),
                          stacked_slices_nda_vec)

\* one pass of the inner loop of _A_adj_M
_A_adj_M_body(st, i, j, stacked_slices_nda_vec) ==
    IF st.exc # "" THEN st
    ELSE _A_adj_M_extract(st, i, j, st.i_min + N_slice_voxels(i),
                          stacked_slices_nda_vec)

RECURSIVE _A_adj_M_loop(_, _, _, _)
_A_adj_M_loop(y, order, n, f) ==
    IF n = 0 THEN WalkStart(N_voxels_HR_volume, f)
    ELSE _A_adj_M_body(_A_adj_M_loop(y, order, n - 1, f),
                       order[n][1], order[n][2], y)

\* A^* M y
_A_adj_M(stacked_slices_nda_vec, f) ==
    _A_adj_M_loop(stacked_slices_nda_vec, LoopOrder(stacks, 1),
                  Len(LoopOrder(stacks, 1)), f)

\* what a call whose last assignment is w returns
Returned(w, f) ==
    IF w.exc # "" THEN Raise(w.exc, f)
    ELSE [out |-> w.out, filt |-> f, exc |-> ""]

\* a variant of the lower block without the factor sqrt(alpha)
_A_TK1_lower_unscaled(MA_x, D_x, alpha, A_x) ==
    IF A_x.exc # "" THEN Raise(A_x.exc, MA_x.filt)
    ELSE IF D_x.exc # "" THEN Raise(D_x.exc, MA_x.filt)
    ELSE Returned(SetSlice(A_x.out, N_total_slice_voxels,
                           N_total_slice_voxels + 3 * N_voxels_HR_volume,
                           D_x.out),
                  MA_x.filt)

\* A_x[N0:] = np.sqrt(alpha) * self._D(HR_nda_vec)
_A_TK1_lower(MA_x, D_x, alpha, A_x) ==
    IF A_x.exc # "" THEN Raise(A_x.exc, MA_x.filt)
    ELSE IF D_x.exc # "" THEN Raise(D_x.exc, MA_x.filt)
    ELSE Returned(SetSlice(A_x.out, N_total_slice_voxels,
                           N_total_slice_voxels + 3 * N_voxels_HR_volume,
                           Scale(Sqrt(alpha), D_x.out)),
                  MA_x.filt)

\* A_x = np.zeros(N0 + 3 * N); A_x[0:N0] = self._MA(HR_nda_vec)
_A_TK1_upper(MA_x, D_x, alpha) ==
    IF MA_x.exc # "" THEN Raise(MA_x.exc, MA_x.filt)
    ELSE _A_TK1_lower(MA_x, D_x, alpha,
                      SetSlice(Zeros(N_total_slice_voxels
                                     + 3 * N_voxels_HR_volume),
                               0, N_total_slice_voxels, MA_x.vec))

\* the augmented operator [MA; sqrt(alpha) D] x
_A_TK1(HR_nda_vec, alpha, f) ==
    _A_TK1_upper(_MA(HR_nda_vec, f), _D(HR_nda_vec), alpha)

\* a variant of the sum with the factor alpha in place of sqrt(alpha)
_A_adj_TK1_sum_alpha(A_adj_y, D_adj_y, alpha) ==
    IF A_adj_y.exc # "" THEN Raise(A_adj_y.exc, A_adj_y.filt)
    ELSE IF D_adj_y.exc # "" THEN Raise(D_adj_y.exc, A_adj_y.filt)
    ELSE [out  |-> VecAdd(A_adj_y.vec, Scale(alpha, D_adj_y.out)),
          filt |-> A_adj_y.filt, exc |-> ""]

\* A_adj_y + np.sqrt(alpha) * self._D_adj(stacked_slices_nda_vec)
_A_adj_TK1_sum(A_adj_y, D_adj_y, alpha) ==
    IF A_adj_y.exc # "" THEN Raise(A_adj_y.exc, A_adj_y.filt)
    ELSE IF D_adj_y.exc # "" THEN Raise(D_adj_y.exc, A_adj_y.filt)
    ELSE [out  |-> VecAdd(A_adj_y.vec, Scale(Sqrt(alpha), D_adj_y.out)),
          filt |-> A_adj_y.filt, exc |-> ""]

\* the augmented adjoint [A^* M, sqrt(alpha) D^*] y
_A_adj_TK1(stacked_slices_nda_vec, alpha, f) ==
    _A_adj_TK1_sum(_A_adj_M(stacked_slices_nda_vec, f),
                   _D_adj(stacked_slices_nda_vec), alpha)

-----------------------------------------------------------------------------
(* Constructor arguments and inputs of the calls *)

\* the keys of self._get_approximate_solution
Registered == {"lsmr", "lsqr", "nnls", "lsq_linear", "L-BFGS-B", "least_squares"}

\* names a caller may configure
MinimizerNames == Registered \cup {"TK1-ADMM"}

AlphaCuts == {1, 2}

\* values of iter_max
IterMaxes == {1, 2}

\* regularization parameters (perfect squares)
Alphas == {0, 4}

\* no predefined covariance (None)
None == [shape |-> <<>>, v |-> <<>>]

\* np.array(cov): three diagonal entries, or a full 3x3 array
CovArgs ==
    { [shape |-> <<3>>, v |-> <<1, 1, 4>>],
      [shape |-> <<3, 3>>, v |-> <<2, 1, 0, 1, 2, 0, 0, 0, 1>>] }

\* ndarray.size
Size(a) == Len(a.v)

Unit(n, i) == [k \in 1..n |-> IF k = i THEN 1 ELSE 0]

Ramp(n) == [k \in 1..n |-> IF k % 2 = 1 THEN k ELSE -k]

\* arrays of length n the operators are evaluated on
TestVecs(n) == {Unit(n, i) : i \in 1..n} \cup {Ramp(n)}

\* a variant of the covariance normalisation that stores its argument as given
NormalizeCovariance_as_given(cov) == cov

\* In case only diagonal entries are given, create diagonal matrix
NormalizeCovariance(cov) ==
    IF Size(cov) = 3 THEN [shape |-> <<3, 3>>, v |-> Diag(cov.v)] ELSE cov

-----------------------------------------------------------------------------
(* Solver.__init__ *)

Idle == [op |-> "idle"]

\* a value that is None (<<>>) or a number v (<<v>>)
NoValue == <<>>

\* no per-slice evaluation in progress, no image in a filter's pipeline
NotEvaluating ==
    [th |-> <<>>,
     Input  |-> [fw |-> Image(NoGrid, <<>>), adj |-> Image(NoGrid, <<>>)],
     Output |-> [fw |-> Image(NoGrid, <<>>), adj |-> Image(NoGrid, <<>>)]]

\* ImageDataReader.__init__ of an object of one of the classes:
\* self._stacks = None.  reads counts the calls of read_data; found and exc
\* are the number of images and the exception of the last of them
ImageDataReader_init(classes) ==
    reader \in {[class |-> c, _stacks |-> [is_list |-> FALSE, items |-> <<>>],
                 reads |-> 0, found |-> 0, exc |-> ""] : c \in classes}

Constructor(stackLists, sizes, names, modes, covs, cuts, iters) ==
    /\ stacks \in stackLists
    /\ HR_volume \in {MakeHR(size) : size \in sizes}
    /\ deconvolution_mode \in modes
    /\ minimizer \in names
    /\ \E cov \in covs \cup {None} :
          /\ (deconvolution_mode = "predefined_covariance") = (cov # None)
          /\ predefined_covariance =
                IF cov # None THEN NormalizeCovariance(cov) ELSE cov
    /\ alpha_cut \in cuts
    /\ filters =
          [fw  |-> [Alpha |-> alpha_cut, Covariance |-> NoCovariance,
                    Output |-> NoGrid],
           adj |-> [Alpha |-> alpha_cut, Covariance |-> NoCovariance,
                    Output |-> Grid(HR_volume)]]
    /\ N_total_slice_voxels =
          Sum([i \in 1..Len(stacks) |-> Prod3(stacks[i].sitk.size)])
    /\ N_voxels_HR_volume = Prod3(HR_volume.size)
    /\ iter_max \in iters
    /\ statistics = [elapsed_time_sec |-> NoValue, residual_ell2 |-> NoValue,
                     residual_prior |-> NoValue]
    /\ evaluations = NotEvaluating
    /\ last = Idle

-----------------------------------------------------------------------------
(* Calls.  A call starts when the previous one has returned; last holds     *)
(* what it computed until Return.                                           *)

\* a variant of set_alpha_cut that updates the forward filter only
set_alpha_cut_forward_only(a) ==
    /\ last = Idle
    /\ alpha_cut' = a
    /\ filters' = [fw  |-> [filters.fw EXCEPT !.Alpha = a],
                   adj |-> filters.adj]
    /\ UNCHANGED <<config, apart, minimizer, predefined_covariance, last>>

set_alpha_cut(a) ==
    /\ last = Idle
    /\ alpha_cut' = a
    /\ filters' = [fw  |-> [filters.fw EXCEPT !.Alpha = a],
                   adj |-> [filters.adj EXCEPT !.Alpha = a]]
    /\ UNCHANGED <<config, apart, minimizer, predefined_covariance, last>>

set_predefined_covariance(cov) ==
    /\ last = Idle
    /\ predefined_covariance' = NormalizeCovariance(cov)
    /\ UNCHANGED <<config, apart, minimizer, alpha_cut, filters, last>>

\* return self._predefined_covariance
get_predefined_covariance == predefined_covariance

set_minimizer(m) ==
    /\ last = Idle
    /\ minimizer' = m
    /\ UNCHANGED <<config, apart, predefined_covariance, alpha_cut, filters, last>>

set_iter_max(n) ==
    /\ last = Idle
    /\ iter_max' = n
    /\ UNCHANGED <<config, minimizer, predefined_covariance, alpha_cut,
                   filters, last, statistics, evaluations, reader>>

Return ==
    /\ last # Idle
    /\ last' = Idle
    /\ UNCHANGED <<config, apart, minimizer, predefined_covariance, alpha_cut, filters>>

\* a variant of an operator evaluation that stores an array in the volume
Frame_volume_written ==
    /\ UNCHANGED <<stacks, deconvolution_mode, N_total_slice_voxels,
                   N_voxels_HR_volume, minimizer, predefined_covariance,
                   alpha_cut, apart>>
    /\ HR_volume' = [HR_volume EXCEPT !.nda = Ramp(N_voxels_HR_volume)]

\* what an operator evaluation leaves alone: the operators assign no attribute
\* of the solver, of a stack, of a slice or of the volume; their images and
\* arrays are new objects
Frame == UNCHANGED <<config, apart, minimizer, predefined_covariance, alpha_cut>>

PlainAdj(x, y, my, fw) ==
    [op |-> "plain", x |-> x, y |-> y, my |-> my, fw |-> fw,
     bw |-> _A_adj_M(y, fw.filt)]

PlainFwd(x, y, my) == PlainAdj(x, y, my, _MA(x, my.filt))

\* b = _get_M_y(), MAx = _MA(x), then A^* M y: the plain masked system
Plain(x, y, f) == PlainFwd(x, y, _get_M_y(f))

CallPlain(x, y) ==
    /\ last = Idle
    /\ last' = Plain(x, y, filters)
    /\ filters' = last'.bw.filt
    /\ Frame

TK1Adj(x, y, alpha, fw) ==
    [op |-> "TK1", x |-> x, y |-> y, alpha |-> alpha, fw |-> fw,
     bw |-> _A_adj_TK1(y, alpha, fw.filt)]

\* A_TK1 x, then A_TK1^* y: one forward and one adjoint evaluation of the
\* augmented system
TK1(x, y, alpha, f) == TK1Adj(x, y, alpha, _A_TK1(x, alpha, f))

CallTK1(x, y, alpha) ==
    /\ last = Idle
    /\ last' = TK1(x, y, alpha, filters)
    /\ filters' = last'.bw.filt
    /\ Frame

AkPairAdj(v, u, i, j, fw) ==
    [op |-> "Ak", x |-> v, y |-> u, i |-> i, j |-> j, fw |-> fw,
     bw |-> _Ak_adj(Image(stacks[i].slices[j].itk, u), stacks[i].slices[j],
                    fw.filt)]

\* A_k v, then A_k^* u, for the j-th slice of the i-th stack
AkPair(v, u, i, j, f) ==
    AkPairAdj(v, u, i, j, _Ak(Image(HR_volume, v), stacks[i].slices[j], f))

CallAk(v, u, i, j) ==
    /\ last = Idle
    /\ last' = AkPair(v, u, i, j, filters)
    /\ filters' = last'.bw.filt
    /\ Frame

\* a variant of the sum of _get_residual_ell2 that does not square the
\* differences
_get_residual_ell2_sum_plain(My_nda_vec, MAx_nda_vec) ==
    IF My_nda_vec.exc # "" THEN [v |-> 0, filt |-> My_nda_vec.filt,
                                 exc |-> My_nda_vec.exc]
    ELSE IF MAx_nda_vec.exc # "" THEN [v |-> 0, filt |-> MAx_nda_vec.filt,
                                       exc |-> MAx_nda_vec.exc]
    ELSE [v |-> Sum([k \in 1..Len(My_nda_vec.vec) |->
                        MAx_nda_vec.vec[k] - My_nda_vec.vec[k]]),
          filt |-> MAx_nda_vec.filt, exc |-> ""]

\* return np.sum((MAx_nda_vec-My_nda_vec)**2)
_get_residual_ell2_sum(My_nda_vec, MAx_nda_vec) ==
    IF My_nda_vec.exc # "" THEN [v |-> 0, filt |-> My_nda_vec.filt,
                                 exc |-> My_nda_vec.exc]
    ELSE IF MAx_nda_vec.exc # "" THEN [v |-> 0, filt |-> MAx_nda_vec.filt,
                                       exc |-> MAx_nda_vec.exc]
    ELSE [v |-> Sum([k \in 1..Len(My_nda_vec.vec) |->
                        (MAx_nda_vec.vec[k] - My_nda_vec.vec[k])
                        * (MAx_nda_vec.vec[k] - My_nda_vec.vec[k])]),
          filt |-> MAx_nda_vec.filt, exc |-> ""]

\* MAx_nda_vec = self._MA(HR_nda_vec)
_get_residual_ell2_MA(HR_nda_vec, My_nda_vec) ==
    _get_residual_ell2_sum(My_nda_vec, _MA(HR_nda_vec, My_nda_vec.filt))

\* the ell2 residual of the volume array HR_nda_vec
_get_residual_ell2(HR_nda_vec, f) ==
    _get_residual_ell2_MA(HR_nda_vec, _get_M_y(f))

CallResidual(x) ==
    /\ last = Idle
    /\ last' = [op |-> "residual", x |-> x,
                ret |-> _get_residual_ell2(x, filters)]
    /\ filters' = last'.ret.filt
    /\ Frame

MkPairAdj(u, w, v, i, j, fw) ==
    [op |-> "Mk", u |-> u, w |-> w, x |-> v, i |-> i, j |-> j,
     Mu |-> _Mk(Image(stacks[i].slices[j].itk, u), stacks[i].slices[j]),
     Mw |-> _Mk(Image(stacks[i].slices[j].itk, w), stacks[i].slices[j]),
     fw |-> fw,
     bw |-> _Ak_adj_Mk(Image(stacks[i].slices[j].itk, u),
                       stacks[i].slices[j], fw.filt)]

\* M_k u and M_k w, M_k A_k v, then A_k^* M_k u, for the j-th slice of the
\* i-th stack
MkPair(u, w, v, i, j, f) ==
    MkPairAdj(u, w, v, i, j,
              _Mk_Ak(Image(HR_volume, v), stacks[i].slices[j], f))

CallMk(u, w, v, i, j) ==
    /\ last = Idle
    /\ last' = MkPair(u, w, v, i, j, filters)
    /\ filters' = last'.bw.filt
    /\ Frame

\* D x, then D^* y
CallD(x, y) ==
    /\ last = Idle
    /\ last' = [op |-> "D", x |-> x, y |-> y, fw |-> _D(x), bw |-> _D_adj(y)]
    /\ UNCHANGED filters
    /\ Frame

NAug == N_total_slice_voxels + 3 * N_voxels_HR_volume

-----------------------------------------------------------------------------
(* The augmented linear system: every stack list, the two modes that take    *)
(* the covariance from the slice, one cut-off distance.                     *)

Init ==
    /\ Constructor(StackLists, HRSizes, {"lsmr"}, {"full_3D", "only_in_plane"},
                   {}, {1}, {10})
    /\ ImageDataReader_init({"ImageDirectoryReader"})

Next ==
    \/ \E x \in TestVecs(N_voxels_HR_volume) :
          CallPlain(x, Ramp(N_total_slice_voxels))
    \/ \E x \in TestVecs(N_voxels_HR_volume),
          y \in TestVecs(NAug) \cup {Ramp(N_total_slice_voxels)},
          alpha \in Alphas : CallTK1(x, y, alpha)
    \/ \E x \in TestVecs(N_voxels_HR_volume),
          y \in TestVecs(NAug) \cup {Ramp(3 * N_voxels_HR_volume)} :
          CallD(x, y)
    \/ \E x \in TestVecs(N_voxels_HR_volume) : CallResidual(x)
    \/ Return

Spec == Init /\ [][Next]_vars

-----------------------------------------------------------------------------
(* The shared filters: every mode, covariance and cut-off distance, on two  *)
(* stack lists.                                                             *)

FilterStackLists ==
    { <<MakeStack(k)>> : k \in StackKinds }

InitFilters ==
    /\ Constructor(FilterStackLists, HRSizes, {"lsmr"}, Modes, CovArgs,
                   AlphaCuts, {10})
    /\ ImageDataReader_init({"ImageDirectoryReader"})

NextFilters ==
    \/ \E a \in AlphaCuts : set_alpha_cut(a)
    \/ \E cov \in CovArgs : set_predefined_covariance(cov)
    \/ \E i \in 1..Len(stacks) : \E j \in 1..Len(stacks[i].slices) :
          \E v \in TestVecs(N_voxels_HR_volume),
             u \in TestVecs(Prod3(stacks[i].slices[j].itk.size)) :
             CallAk(v, u, i, j)
    \/ \E i \in 1..Len(stacks) : \E j \in 1..Len(stacks[i].slices) :
          \E v \in TestVecs(N_voxels_HR_volume),
             u \in TestVecs(Prod3(stacks[i].slices[j].itk.size)),
             w \in TestVecs(Prod3(stacks[i].slices[j].itk.size)) :
             CallMk(u, w, v, i, j)
    \/ Return

SpecFilters == InitFilters /\ [][NextFilters]_vars

-----------------------------------------------------------------------------
(* Solver: the statistics of a reconstruction.  The constructor sets the    *)
(* three attributes to None; run_reconstruction and compute_statistics of   *)
(* the subclasses record them.  Each accessor tests its attribute with      *)
(* "< 0".  For None that comparison is the interpreter's: Python 2 orders   *)
(* None before every number, Python 3 refuses to order the two.             *)

NoneComparisons == {"smaller", "TypeError"}

\* if value < 0: raise ValueError(...); return value
Accessor(value, cmp) ==
    IF value = NoValue
    THEN IF cmp = "smaller" THEN [v |-> NoValue, exc |-> "ValueError"]
         ELSE [v |-> NoValue, exc |-> "TypeError"]
    ELSE IF value[1] < 0 THEN [v |-> NoValue, exc |-> "ValueError"]
    ELSE [v |-> value, exc |-> ""]

FrameStatistics ==
    UNCHANGED <<config, minimizer, predefined_covariance, alpha_cut, filters,
                iter_max, evaluations, reader>>

get_computational_time(cmp) ==
    /\ last = Idle
    /\ last' = [op |-> "get_computational_time",
                ret |-> Accessor(statistics.elapsed_time_sec, cmp)]
    /\ UNCHANGED statistics
    /\ FrameStatistics

get_residual_ell2(cmp) ==
    /\ last = Idle
    /\ last' = [op |-> "get_residual_ell2",
                ret |-> Accessor(statistics.residual_ell2, cmp)]
    /\ UNCHANGED statistics
    /\ FrameStatistics

get_residual_prior(cmp) ==
    /\ last = Idle
    /\ last' = [op |-> "get_residual_prior",
                ret |-> Accessor(statistics.residual_prior, cmp)]
    /\ UNCHANGED statistics
    /\ FrameStatistics

\* run_reconstruction of a subclass records the time it took
run_reconstruction(t) ==
    /\ last = Idle
    /\ statistics' = [statistics EXCEPT !.elapsed_time_sec = <<t>>]
    /\ UNCHANGED last
    /\ FrameStatistics

\* compute_statistics of a subclass records the two residuals of the volume
compute_statistics(prior) ==
    /\ last = Idle
    /\ statistics' =
          [statistics EXCEPT
              !.residual_ell2 =
                  <<_get_residual_ell2(HR_volume.nda, filters).v>>,
              !.residual_prior = <<prior>>]
    /\ UNCHANGED last
    /\ FrameStatistics

InitStatistics ==
    /\ Constructor({S \in StackLists : Len(S) = 1}, HRSizes, {"lsmr"},
                   {"full_3D"}, {}, {1}, {10})
    /\ ImageDataReader_init({"ImageDirectoryReader"})

NextStatistics ==
    \/ \E cmp \in NoneComparisons : get_computational_time(cmp)
    \/ \E cmp \in NoneComparisons : get_residual_ell2(cmp)
    \/ \E cmp \in NoneComparisons : get_residual_prior(cmp)
    \/ \E t \in 0..2 : run_reconstruction(t)
    \/ \E prior \in 0..2 : compute_statistics(prior)
    \/ Return

SpecStatistics == InitStatistics /\ [][NextStatistics]_vars

-----------------------------------------------------------------------------
(* niftymic/base/data_reader.py: the image readers.  A read finds n images  *)
(* and ends with the exception exc ("" when it returns): at = 0 says the     *)
(* exception comes before self._stacks is assigned, at = k that building    *)
(* the k-th entry raises it.  A Stack is known by its position in the list  *)
(* and the read that built it.                                              *)

ReaderClasses ==
    {"ImageDirectoryReader", "MultipleImagesReader",
     "ImageSlicesDirectoryReader", "MultiComponentImageReader"}

\* the entries of [None] * n, and a built Stack
Placeholder == [built |-> FALSE, file |-> 0, read |-> 0]

Stack(k, r) == [built |-> TRUE, file |-> k, read |-> r]

\* the exceptions read_data of the class can end with, and where
CanRaise(class, exc, at, n) ==
    \/ exc = "" /\ at = 0
    \/ /\ at = 0
       /\ \/ exc = "DirectoryNotExistent"
             /\ class \in {"ImageDirectoryReader", "ImageSlicesDirectoryReader"}
          \/ exc = "RuntimeError" /\ class = "MultiComponentImageReader"
    \/ /\ at \in 1..n
       /\ \/ exc = "RuntimeError"
          \/ exc \in {"DirectoryNotExistent", "IOError"}
             /\ class = "MultipleImagesReader"

\* self._stacks = [None] * n, then self._stacks[i] = st.Stack.from_...(...)
\* entry by entry, as far as the read gets
StacksRead(n, exc, at, r) ==
    [is_list |-> TRUE,
     items |-> [k \in 1..n |->
                   IF exc = "" \/ k < at THEN Stack(k, r) ELSE Placeholder]]

FrameReader ==
    UNCHANGED <<config, minimizer, predefined_covariance, alpha_cut, filters,
                iter_max, statistics, evaluations>>

read_data(n, exc, at) ==
    /\ last = Idle
    /\ reader.reads < MaxReads
    /\ CanRaise(reader.class, exc, at, n)
    /\ reader' = [reader EXCEPT
                     !._stacks = IF exc # "" /\ at = 0 THEN @
                                 ELSE StacksRead(n, exc, at, reader.reads + 1),
                     !.reads = @ + 1, !.found = n, !.exc = exc]
    /\ last' = [op |-> "read_data", exc |-> exc]
    /\ FrameReader

\* a variant of get_data that takes an empty list for no list
ImageDataReader_get_data_nonempty(_stacks) ==
    IF ~_stacks.is_list \/ _stacks.items = <<>>
    THEN [v |-> <<>>, exc |-> "ObjectNotCreated"]
    ELSE [v |-> _stacks.items, exc |-> ""]

\* if type(self._stacks) is not list: raise ObjectNotCreated; return self._stacks
ImageDataReader_get_data(_stacks) ==
    IF ~_stacks.is_list THEN [v |-> <<>>, exc |-> "ObjectNotCreated"]
    ELSE [v |-> _stacks.items, exc |-> ""]

get_data ==
    /\ last = Idle
    /\ last' = [op |-> "get_data",
                ret |-> ImageDataReader_get_data(reader._stacks)]
    /\ UNCHANGED reader
    /\ FrameReader

InitReader ==
    /\ Constructor({<<>>}, {<<2, 1, 2>>}, {"lsmr"}, {"full_3D"}, {}, {1}, {10})
    /\ ImageDataReader_init(ReaderClasses)

NextReader ==
    \/ \E n \in 0..MaxFiles, at \in 0..MaxFiles,
          exc \in {"", "DirectoryNotExistent", "IOError", "RuntimeError"} :
          read_data(n, exc, at)
    \/ get_data
    \/ Return

SpecReader == InitReader /\ [][NextReader]_vars

-----------------------------------------------------------------------------
(* niftymic/base/data_reader.py: what the readers find on disk.  A file     *)
(* name is a stem, a number, the mask suffix or not, and an extension; the  *)
(* base name of a file is its name up to the extension.  reads is 1 once   *)
(* read_data has been called.                                              *)

MaxListing == 3

\* niftymic.definitions: ALLOWED_EXTENSIONS, in the order they are tried
ALLOWED_EXTENSIONS == <<"nii.gz", "nii">>

Stems == {"a", "B"}

Numbers == {2, 10}

FileNames ==
    [stem : Stems, num : Numbers, mask : BOOLEAN, ext : {"nii.gz", "nii"}]

Listings == {d \in SUBSET FileNames : Cardinality(d) <= MaxListing}

\* group(1) of pattern on an image name, and of pattern_mask on a mask name
BaseName(f) == [stem |-> f.stem, num |-> f.num]

\* p_mask.match(f)
IsMaskName(f) == f.mask

\* the character codes of the stems, and str.lower
Code(c) == IF c = "B" THEN 66 ELSE IF c = "a" THEN 97 ELSE 98

Lower(c) == IF c = "B" THEN "b" ELSE c

\* a sort key that keeps the case of the name
filenames_key_plain(y) == <<Code(y.stem), y.num>>

\* key=lambda y: y.lower(), split by natsort into its text and its number
filenames_key(y) == <<Code(Lower(y.stem)), y.num>>

KeyLE(k1, k2) == k1[1] < k2[1] \/ (k1[1] = k2[1] /\ k1[2] <= k2[2])

\* natsort.natsorted(keys, key): the orders of the keys a stable sort of
\* an unordered collection can give
Natsorted(keys) ==
    {s \in [1..Cardinality(keys) -> keys] :
        /\ \A i, j \in 1..Cardinality(keys) : i # j => s[i] # s[j]
        /\ \A i \in 1..(Cardinality(keys) - 1) :
              KeyLE(filenames_key(s[i]), filenames_key(s[i + 1]))}

\* {group(1): group(0) for f in os.listdir(...)}: one file per base name,
\* the one that os.listdir yields last
Dicts(files) ==
    {d \in [{BaseName(f) : f \in files} -> files] :
        \A b \in DOMAIN d : BaseName(d[b]) = b}

\* the entries of [None] * n, and st.Stack.from_filename(image, mask)
NoStack == [built |-> FALSE, image |-> <<>>, mask |-> <<>>]

Stack_from_filename(image, mask) ==
    [built |-> TRUE, image |-> <<image>>, mask |-> mask]

ImageDirectoryReader_init(listings) ==
    reader \in {[class |-> "ImageDirectoryReader",
                 _stacks |-> [is_list |-> FALSE, items |-> <<>>],
                 reads |-> 0, exc |-> "",
                 directory_exists |-> e, listing |-> d] :
                e \in BOOLEAN, d \in listings}

\* the Stacks of the loop of read_data; building the at-th raises when at > 0
ImageDirectoryReader_stacks(dic_filenames, dic_filenames_mask, filenames, at) ==
    [i \in 1..Len(filenames) |->
        IF at > 0 /\ i >= at THEN NoStack
        ELSE Stack_from_filename(
                 dic_filenames[filenames[i]],
                 IF filenames[i] \in DOMAIN dic_filenames_mask
                 THEN <<dic_filenames_mask[filenames[i]]>> ELSE NoValue)]

ImageDirectoryReader_read_data(at) ==
    /\ last = Idle
    /\ reader.class = "ImageDirectoryReader"
    /\ \/ /\ ~reader.directory_exists
          /\ at = 0
          /\ reader' = [reader EXCEPT !.reads = 1,
                                      !.exc = "DirectoryNotExistent"]
       \/ /\ reader.directory_exists
          /\ \E dic_filenames \in
                   Dicts({f \in reader.listing : ~IsMaskName(f)}),
                dic_filenames_mask \in
                   Dicts({f \in reader.listing : IsMaskName(f)}) :
                \E filenames \in Natsorted(DOMAIN dic_filenames) :
                   /\ at <= Len(filenames)
                   /\ reader' = [reader EXCEPT
                         !._stacks =
                            [is_list |-> TRUE,
                             items |-> ImageDirectoryReader_stacks(
                                dic_filenames, dic_filenames_mask,
                                filenames, at)],
                         !.reads = 1,
                         !.exc = IF at > 0 THEN "RuntimeError" ELSE ""]
    /\ last' = [op |-> "read_data", exc |-> reader'.exc]
    /\ FrameReader

\* file_paths of a MultipleImagesReader: a directory that exists ("here",
\* with the listing of the reader) or does not ("gone"), and a file name
\* whose extension may be none of the allowed ones
FilePaths ==
    [dir : {"here", "gone"}, stem : Stems, num : {2}, mask : {FALSE},
     ext : {"nii.gz", "nii", "txt"}]

FilePathLists == UNION {[1..n -> FilePaths] : n \in 0..MaxFiles}

\* the mask files a directory of a MultipleImagesReader may hold
MaskListings ==
    SUBSET [stem : Stems, num : {2}, mask : {TRUE}, ext : {"nii.gz", "nii"}]

MultipleImagesReader_init(file_paths, listings) ==
    reader \in {[class |-> "MultipleImagesReader",
                 _stacks |-> [is_list |-> FALSE, items |-> <<>>],
                 reads |-> 0, exc |-> "",
                 directory_exists |-> TRUE, listing |-> d,
                 file_paths |-> p] :
                p \in file_paths, d \in listings}

\* file_path.endswith(tuple(ALLOWED_EXTENSIONS))
EndsWithAllowed(file_path) ==
    \E k \in 1..Len(ALLOWED_EXTENSIONS) : file_path.ext = ALLOWED_EXTENSIONS[k]

\* a variant of the checks on one path that looks at the extension first
MultipleImagesReader_check_extension_first(file_path) ==
    IF ~EndsWithAllowed(file_path) THEN "IOError"
    ELSE IF file_path.dir # "here" THEN "DirectoryNotExistent"
    ELSE ""

\* the checks on one path: the directory, then the extension
MultipleImagesReader_check(file_path) ==
    IF file_path.dir # "here" THEN "DirectoryNotExistent"
    ELSE IF ~EndsWithAllowed(file_path) THEN "IOError"
    ELSE ""

\* the indices of the paths whose checks raise
Faulty(file_paths) ==
    {i \in 1..Len(file_paths) : MultipleImagesReader_check(file_paths[i]) # ""}

\* the first index at which the loop raises (0: none), when building the
\* at-th Stack raises (at = 0: none does)
RaisesAt(file_paths, at) ==
    LET S == Faulty(file_paths) \cup (IF at > 0 THEN {at} ELSE {})
    IN  IF S = {} THEN 0 ELSE CHOOSE i \in S : \A j \in S : i <= j

\* filename_mask: the names of the directory that match pattern_mask
filename_mask(file_path, listing) ==
    {f \in listing : IsMaskName(f) /\ BaseName(f) = BaseName(file_path)}

\* abs_path_mask, for each way os.listdir may order the directory
abs_path_mask(file_path, listing) ==
    IF filename_mask(file_path, listing) = {} THEN {NoValue}
    ELSE {<<f>> : f \in filename_mask(file_path, listing)}

MultipleImagesReader_read_data(at) ==
    /\ last = Idle
    /\ reader.class = "MultipleImagesReader"
    /\ at <= Len(reader.file_paths)
    /\ \E masks \in [1..Len(reader.file_paths) ->
                        {NoValue} \cup {<<f>> : f \in reader.listing}] :
          /\ \A i \in 1..Len(reader.file_paths) :
                masks[i] \in abs_path_mask(reader.file_paths[i], reader.listing)
          /\ LET k == RaisesAt(reader.file_paths, at)
             IN  reader' = [reader EXCEPT
                    !._stacks =
                       [is_list |-> TRUE,
                        items |-> [i \in 1..Len(reader.file_paths) |->
                           IF k > 0 /\ i >= k THEN NoStack
                           ELSE Stack_from_filename(reader.file_paths[i],
                                                    masks[i])]],
                    !.reads = 1,
                    !.exc = IF k = 0 THEN ""
                            ELSE IF k \in Faulty(reader.file_paths)
                            THEN MultipleImagesReader_check(reader.file_paths[k])
                            ELSE "RuntimeError"]
    /\ last' = [op |-> "read_data", exc |-> reader'.exc]
    /\ FrameReader

\* the slice files <stem><num>_slice<k>.nii.gz a directory may hold
SliceFileNames == [stem : Stems, num : Numbers, k : {1, 2}]

SliceListings == {d \in SUBSET SliceFileNames : Cardinality(d) <= MaxListing}

\* image_selection: None (no value) or a list of base names
ImageSelections ==
    {NoValue} \cup
    {<<s>> : s \in UNION {[1..n -> {BaseName(f) : f \in SliceFileNames}] :
                             n \in 0..MaxFiles}}

\* the attribute _slice_transforms_sitk exists only once read_data has
\* got to its assignment: __init__ sets _transforms_sitk
ImageSlicesDirectoryReader_init(listings, selections) ==
    reader \in {[class |-> "ImageSlicesDirectoryReader",
                 _stacks |-> [is_list |-> FALSE, items |-> <<>>],
                 _slice_transforms_sitk |-> [is_list |-> FALSE, items |-> <<>>],
                 reads |-> 0, exc |-> "",
                 directory_exists |-> e, listing |-> d,
                 image_selection |-> s] :
                e \in BOOLEAN, d \in listings, s \in selections}

\* a variant of sorted that yields the numbers in descending order
RECURSIVE sorted_descending(_)
sorted_descending(S) ==
    IF S = {} THEN <<>>
    ELSE LET m == CHOOSE x \in S : \A y \in S : x >= y
         IN  <<m>> \o sorted_descending(S \ {m})

\* sorted(dic_slice_filenames.keys())
RECURSIVE sorted(_)
sorted(S) ==
    IF S = {} THEN <<>>
    ELSE LET m == CHOOSE x \in S : \A y \in S : x <= y
         IN  <<m>> \o sorted(S \ {m})

\* [f for f in self._image_selection if f in filenames]
RECURSIVE Selected(_, _)
Selected(image_selection, filenames) ==
    IF image_selection = <<>> THEN <<>>
    ELSE (IF \E i \in 1..Len(filenames) : filenames[i] = Head(image_selection)
          THEN <<Head(image_selection)>> ELSE <<>>)
         \o Selected(Tail(image_selection), filenames)

\* {int(group(2)): group(1) + group(2)} for the slice files of one stack
dic_slice_filenames(filename, listing) ==
    [k \in {f.k : f \in {g \in listing : BaseName(g) = filename}} |->
        [stem |-> filename.stem, num |-> filename.num, k |-> k]]

\* st.Stack.from_slice_filenames(dir_input, prefix_stack, suffix_mask, dic)
Stack_from_slice_filenames(prefix_stack, dic) ==
    [built |-> TRUE, prefix_stack |-> <<prefix_stack>>, slices |-> dic]

NoSliceStack == [built |-> FALSE, prefix_stack |-> <<>>, slices |-> <<>>]

\* sitk.ReadTransform("%s.tfm" % name) for the slices in sorted order
ReadSliceTransforms(dic) ==
    [n \in 1..Len(sorted(DOMAIN dic)) |->
        [tfm |-> dic[sorted(DOMAIN dic)[n]]]]

\* the loop of read_data over filenames; at > 0: its at-th pass raises, in
\* from_slice_filenames or, with the Stack stored, in ReadTransform
ImageSlicesDirectoryReader_loop(filenames, at, in_transform) ==
    [reader EXCEPT
        !._stacks =
           [is_list |-> TRUE,
            items |-> [i \in 1..Len(filenames) |->
               IF at > 0 /\ (i > at \/ (i = at /\ ~in_transform))
               THEN NoSliceStack
               ELSE Stack_from_slice_filenames(
                       filenames[i],
                       dic_slice_filenames(filenames[i], reader.listing))]],
        !._slice_transforms_sitk =
           [is_list |-> TRUE,
            items |-> [i \in 1..Len(filenames) |->
               IF at > 0 /\ i >= at THEN NoValue
               ELSE <<ReadSliceTransforms(
                        dic_slice_filenames(filenames[i], reader.listing))>>]],
        !.reads = 1,
        !.exc = IF at > 0 THEN "RuntimeError" ELSE ""]

ImageSlicesDirectoryReader_read_data(at, in_transform) ==
    /\ last = Idle
    /\ reader.class = "ImageSlicesDirectoryReader"
    /\ \/ /\ ~reader.directory_exists
          /\ at = 0 /\ ~in_transform
          /\ reader' = [reader EXCEPT !.reads = 1,
                                      !.exc = "DirectoryNotExistent"]
       \/ /\ reader.directory_exists
          /\ \E sorted_names \in
                   Natsorted({BaseName(f) : f \in reader.listing}) :
                LET filenames ==
                       IF reader.image_selection # NoValue
                       THEN Selected(reader.image_selection[1], sorted_names)
                       ELSE sorted_names
                IN  /\ at <= Len(filenames)
                    /\ at = 0 => ~in_transform
                    /\ reader' = ImageSlicesDirectoryReader_loop(
                                     filenames, at, in_transform)
    /\ last' = [op |-> "read_data", exc |-> reader'.exc]
    /\ FrameReader

\* return self._slice_transforms_sitk
get_slice_transforms_sitk ==
    /\ last = Idle
    /\ reader.class = "ImageSlicesDirectoryReader"
    /\ last' = [op |-> "get_slice_transforms_sitk",
                ret |-> IF reader._slice_transforms_sitk.is_list
                        THEN [v |-> reader._slice_transforms_sitk.items,
                              exc |-> ""]
                        ELSE [v |-> <<>>, exc |-> "AttributeError"]]
    /\ UNCHANGED reader
    /\ FrameReader

\* the transform types a .tfm file may name in its third line
TransformTypes ==
    {"Euler3DTransform_double_3_3", "AffineTransform_double_3_3",
     "ScaleTransform_double_3_3"}

\* the .tfm files, known by name and third line, and files of another kind
TransformFiles == [stem : Stems, num : Numbers, ext : {"tfm"}, type : TransformTypes]

OtherFiles == [stem : Stems, num : {2}, ext : {"txt"}, type : {""}]

TransformListings ==
    {d \in SUBSET (TransformFiles \cup OtherFiles) :
        /\ Cardinality(d) <= MaxListing
        /\ \A f, g \in d :
              (BaseName(f) = BaseName(g) /\ f.ext = g.ext) => f = g}

TransformPathLists == UNION {[1..n -> TransformFiles] : n \in 0..MaxFiles}

\* TransformationDataReader.__init__: self._transforms_sitk = None
TransformationDataReader_init(class, listings, file_paths) ==
    reader \in {[class |-> class,
                 _transforms_sitk |-> [is_list |-> FALSE, items |-> <<>>],
                 reads |-> 0, exc |-> "",
                 listing |-> d, file_paths |-> p] :
                d \in listings, p \in file_paths}

\* a variant of the conversion that hands a transform of another type on
\* as the sitk.Transform it was read as
MultipleTransformationsReader_convert_or_keep(file) ==
    IF file.type = "Euler3DTransform_double_3_3"
    THEN [v |-> [class |-> "Euler3DTransform", read_from |-> file], exc |-> ""]
    ELSE IF file.type = "AffineTransform_double_3_3"
    THEN [v |-> [class |-> "AffineTransform", read_from |-> file], exc |-> ""]
    ELSE [v |-> [class |-> "Transform", read_from |-> file], exc |-> ""]

\* self._transform_type[transform_type](transform_sitk)
MultipleTransformationsReader_convert(file) ==
    IF file.type = "Euler3DTransform_double_3_3"
    THEN [v |-> [class |-> "Euler3DTransform", read_from |-> file], exc |-> ""]
    ELSE IF file.type = "AffineTransform_double_3_3"
    THEN [v |-> [class |-> "AffineTransform", read_from |-> file], exc |-> ""]
    ELSE [v |-> [class |-> "", read_from |-> file], exc |-> "KeyError"]

NoTransform == [class |-> "", read_from |-> <<>>]

\* MultipleTransformationsReader.read_data on file_paths; at > 0:
\* sitk.ReadTransform of the at-th file raises
MultipleTransformationsReader_read(file_paths, at) ==
    LET S == {i \in 1..Len(file_paths) :
                 i = at \/ MultipleTransformationsReader_convert(file_paths[i]).exc # ""}
        k == IF S = {} THEN 0 ELSE CHOOSE i \in S : \A j \in S : i <= j
    IN  [_transforms_sitk |->
            [is_list |-> TRUE,
             items |-> [i \in 1..Len(file_paths) |->
                IF k > 0 /\ i >= k THEN NoTransform
                ELSE MultipleTransformationsReader_convert(file_paths[i]).v]],
         exc |-> IF k = 0 THEN ""
                 ELSE IF k = at THEN "RuntimeError"
                 ELSE MultipleTransformationsReader_convert(file_paths[k]).exc]

MultipleTransformationsReader_read_data(at) ==
    /\ last = Idle
    /\ reader.class = "MultipleTransformationsReader"
    /\ at <= Len(reader.file_paths)
    /\ reader' = [reader EXCEPT
          !._transforms_sitk =
             MultipleTransformationsReader_read(reader.file_paths, at)._transforms_sitk,
          !.reads = 1,
          !.exc = MultipleTransformationsReader_read(reader.file_paths, at).exc]
    /\ last' = [op |-> "read_data", exc |-> reader'.exc]
    /\ FrameReader

\* TransformationDirectoryReader.read_data: the reader of the sorted
\* matching files is read, and its list taken over if that returns
TransformationDirectoryReader_read_data(at) ==
    /\ last = Idle
    /\ reader.class = "TransformationDirectoryReader"
    /\ \E filenames \in Natsorted({f \in reader.listing : f.ext = "tfm"}) :
          /\ at <= Len(filenames)
          /\ reader' = [reader EXCEPT
                !._transforms_sitk =
                   IF MultipleTransformationsReader_read(filenames, at).exc = ""
                   THEN MultipleTransformationsReader_read(filenames, at)._transforms_sitk
                   ELSE @,
                !.reads = 1,
                !.exc = MultipleTransformationsReader_read(filenames, at).exc]
    /\ last' = [op |-> "read_data", exc |-> reader'.exc]
    /\ FrameReader

\* TransformationDataReader.get_data: return self._transforms_sitk
TransformationDataReader_get_data ==
    /\ last = Idle
    /\ reader.class \in {"TransformationDirectoryReader",
                         "MultipleTransformationsReader"}
    /\ last' = [op |-> "get_data",
                ret |-> [v |-> reader._transforms_sitk, exc |-> ""]]
    /\ UNCHANGED reader
    /\ FrameReader

InitFiles ==
    /\ Constructor({<<>>}, {<<2, 1, 2>>}, {"lsmr"}, {"full_3D"}, {}, {1}, {10})
    /\ \/ ImageDirectoryReader_init(Listings)
       \/ MultipleImagesReader_init(FilePathLists, MaskListings)

NextFiles ==
    \/ \E at \in 0..MaxListing : ImageDirectoryReader_read_data(at)
    \/ \E at \in 0..MaxFiles : MultipleImagesReader_read_data(at)
    \/ get_data
    \/ Return

SpecFiles == InitFiles /\ [][NextFiles]_vars

InitSlices ==
    /\ Constructor({<<>>}, {<<2, 1, 2>>}, {"lsmr"}, {"full_3D"}, {}, {1}, {10})
    /\ ImageSlicesDirectoryReader_init(SliceListings, ImageSelections)

NextSlices ==
    \/ \E at \in 0..MaxListing, in_transform \in BOOLEAN :
          ImageSlicesDirectoryReader_read_data(at, in_transform)
    \/ get_slice_transforms_sitk
    \/ get_data
    \/ Return

SpecSlices == InitSlices /\ [][NextSlices]_vars

InitTransforms ==
    /\ Constructor({<<>>}, {<<2, 1, 2>>}, {"lsmr"}, {"full_3D"}, {}, {1}, {10})
    /\ \/ TransformationDataReader_init("TransformationDirectoryReader",
                                        TransformListings, {<<>>})
       \/ TransformationDataReader_init("MultipleTransformationsReader",
                                        {{}}, TransformPathLists)

NextTransforms ==
    \/ \E at \in 0..MaxFiles : MultipleTransformationsReader_read_data(at)
    \/ \E at \in 0..MaxListing : TransformationDirectoryReader_read_data(at)
    \/ TransformationDataReader_get_data
    \/ Return

SpecTransforms == InitTransforms /\ [][NextTransforms]_vars

-----------------------------------------------------------------------------
(* src/VolumeReconstruction.py: Shepard-like fusion of the slices into the  *)
(* volume.  stacks holds the stacks of the stack manager, HR_volume the     *)
(* Stack object handed to update_reconstructed_volume; a voxel of the       *)
(* volume is a finite number, or what a division by zero leaves.            *)

Finite(x) == [kind |-> "finite", v |-> x]

\* nda_N / nda_D on one voxel: numpy yields nan for 0/0 and inf for x/0
\* with a warning, no exception
TrueDivide(n, d) ==
    IF d # 0 THEN Finite(n \div d)
    ELSE IF n = 0 THEN [kind |-> "nan", v |-> 0]
    ELSE [kind |-> "inf", v |-> 0]

\* index along axis c of the voxel of img nearest to the point p
NearestIndex(img, p, c) ==
    (2 * (p[c] - img.origin[c]) + img.spacing[c]) \div (2 * img.spacing[c])

\* sitk.Resample(slice.sitk, HR_volume.sitk, sitk.Euler3DTransform(),
\* sitk.sitkNearestNeighbor, default_pixel_value): the array of the result
Resample(img, HR, default_pixel_value) ==
    [k \in 1..NVox(HR) |->
        LET p == Pos(HR, k)
            i == [c \in 1..3 |-> NearestIndex(img, p, c)]
        IN  IF \A c \in 1..3 : 0 <= i[c] /\ i[c] < img.size[c]
            THEN img.nda[1 + i[1] + img.size[1] * (i[2] + img.size[2] * i[3])]
            ELSE default_pixel_value]

\* a variant of the test of the hit voxels that takes every non-zero value
ind_nonzero_any(x) == x # 0

\* ind_nonzero = nda_slice > 0
ind_nonzero(x) == x > 0

\* helper_N_nda[ind_nonzero] += nda_slice[ind_nonzero]
\* helper_D_nda[ind_nonzero] += 1
Accumulate(helper, nda_slice) ==
    [N |-> [k \in 1..Len(nda_slice) |->
               IF ind_nonzero(nda_slice[k]) THEN helper.N[k] + nda_slice[k]
               ELSE helper.N[k]],
     D |-> [k \in 1..Len(nda_slice) |->
               IF ind_nonzero(nda_slice[k]) THEN helper.D[k] + 1
               ELSE helper.D[k]]]

\* the slices of the stacks from stack i on, in the order of the two loops
RECURSIVE SlicesFrom(_, _)
SlicesFrom(S, i) ==
    IF i > Len(S) THEN <<>> ELSE S[i].slices \o SlicesFrom(S, i + 1)

\* for i in range(N_stacks): for j in range(N_slices): ...
RECURSIVE _use_discrete_shepard_loop(_, _, _)
_use_discrete_shepard_loop(slices, HR, helper) ==
    IF slices = <<>> THEN helper
    ELSE _use_discrete_shepard_loop(
             Tail(slices), HR,
             Accumulate(helper, Resample(Head(slices).sitk, HR, 0)))

_use_discrete_shepard_helpers(S, HR) ==
    _use_discrete_shepard_loop(
        SlicesFrom(S, 1), HR,
        [N |-> [k \in 1..NVox(HR) |-> 0], D |-> [k \in 1..NVox(HR) |-> 0]])

\* the recursive Gaussian filters of ITK and SimpleITK: every voxel of the
\* input reaches every voxel of the output with a positive weight
SmoothingRecursiveGaussian(nda, HR) ==
    [k \in 1..Len(nda) |->
        SumTo([w \in 1..Len(nda) |->
                  LET a == Idx3(HR.size, k)
                      b == Idx3(HR.size, w)
                      d == (a[1] - b[1]) * (a[1] - b[1])
                           + (a[2] - b[2]) * (a[2] - b[2])
                           + (a[3] - b[3]) * (a[3] - b[3])
                  IN  (IF d = 0 THEN 4 ELSE IF d = 1 THEN 2 ELSE 1) * nda[w]],
              Len(nda))]

\* a variant of the update whose image keeps the geometry that
\* sitk.GetImageFromArray gives it
HR_volume_update_as_created(HR, nda) ==
    [size |-> HR.size, origin |-> <<0, 0, 0>>, spacing |-> <<1, 1, 1>>,
     nda |-> nda]

\* HR_volume_update = sitk.GetImageFromArray(nda)
\* HR_volume_update.CopyInformation(HR_volume.sitk)
HR_volume_update(HR, nda) ==
    [size |-> HR.size, origin |-> HR.origin, spacing |-> HR.spacing,
     nda |-> nda]

FrameFusion ==
    UNCHANGED <<stacks, deconvolution_mode, N_total_slice_voxels,
                N_voxels_HR_volume, minimizer, predefined_covariance,
                alpha_cut, filters, apart>>

\* what _use_discrete_shepard leaves, from the accumulated arrays on
_use_discrete_shepard_divide(helper, nda_N, nda_D) ==
    [op |-> "update_reconstructed_volume",
     helper_N_nda |-> helper.N, helper_D_nda |-> helper.D,
     nda_N |-> nda_N, nda_D |-> nda_D, replaced |-> {},
     nda |-> [k \in 1..Len(nda_N) |-> TrueDivide(nda_N[k], nda_D[k])]]

_use_discrete_shepard(S, HR) ==
    _use_discrete_shepard_divide(
        _use_discrete_shepard_helpers(S, HR),
        SmoothingRecursiveGaussian(_use_discrete_shepard_helpers(S, HR).N, HR),
        SmoothingRecursiveGaussian(_use_discrete_shepard_helpers(S, HR).D, HR))

\* update_reconstructed_volume(HR_volume): self._use_discrete_shepard(HR_volume)
update_reconstructed_volume ==
    /\ last = Idle
    /\ last' = _use_discrete_shepard(stacks, HR_volume)
    /\ HR_volume' = HR_volume_update(HR_volume, last'.nda)
    /\ FrameFusion

\* the HACK of the Deriche variant: nda[nda <= eps] = 1 on the denominator,
\* nda[nda <= eps] = 0 on the numerator, then the division
_use_discrete_shepard_based_on_Deriche_divide(helper, nda_N, nda_D) ==
    [op |-> "_use_discrete_shepard_based_on_Deriche",
     helper_N_nda |-> helper.N, helper_D_nda |-> helper.D,
     nda_N |-> [k \in 1..Len(nda_N) |-> IF nda_N[k] <= 0 THEN 0 ELSE nda_N[k]],
     nda_D |-> [k \in 1..Len(nda_D) |-> IF nda_D[k] <= 0 THEN 1 ELSE nda_D[k]],
     replaced |-> {k \in 1..Len(nda_D) : nda_D[k] <= 0},
     nda |-> [k \in 1..Len(nda_N) |->
                 TrueDivide(IF nda_N[k] <= 0 THEN 0 ELSE nda_N[k],
                            IF nda_D[k] <= 0 THEN 1 ELSE nda_D[k])]]

_use_discrete_shepard_based_on_Deriche ==
    /\ last = Idle
    /\ last' = _use_discrete_shepard_based_on_Deriche_divide(
                   _use_discrete_shepard_helpers(stacks, HR_volume),
                   SmoothingRecursiveGaussian(
                       _use_discrete_shepard_helpers(stacks, HR_volume).N,
                       HR_volume),
                   SmoothingRecursiveGaussian(
                       _use_discrete_shepard_helpers(stacks, HR_volume).D,
                       HR_volume))
    /\ HR_volume' = HR_volume_update(HR_volume, last'.nda)
    /\ FrameFusion

\* a slice of two voxels along x, at the origin given
FusionSlice(origin, thickness, nda) ==
    [sitk |-> [size |-> <<2, 1, 1>>, origin |-> origin,
               spacing |-> <<1, 1, thickness>>, nda |-> nda]]

\* the stacks of the stack manager
FusionStacks ==
    { [slices |-> <<FusionSlice(<<0, 0, 0>>, 1, <<2, 1>>)>>],
      [slices |-> <<FusionSlice(<<0, 0, 0>>, 1, <<0, 3>>),
                    FusionSlice(<<0, 0, 1>>, 1, <<-1, 0>>)>>],
      [slices |-> <<FusionSlice(<<4, 0, 0>>, 1, <<2, 2>>)>>],
      [slices |-> <<FusionSlice(<<1, 0, 0>>, 2, <<1, 2>>),
                    FusionSlice(<<0, 0, 1>>, 1, <<1, 2>>)>>] }

FusionStackLists == UNION {[1..n -> FusionStacks] : n \in 0..MaxStacks}

\* the volumes update_reconstructed_volume is called with
FusionVolumes ==
    { [size |-> <<2, 1, 2>>, origin |-> o, spacing |-> <<1, 1, 1>>,
       nda |-> [k \in 1..4 |-> Finite(x)]] :
      o \in {<<0, 0, 0>>, <<1, 0, 0>>}, x \in {0, 5} }

\* VolumeReconstruction.__init__; the state of the solver is not used
VolumeReconstruction_init(stackLists, volumes) ==
    /\ stacks \in stackLists
    /\ HR_volume \in volumes
    /\ deconvolution_mode = "full_3D"
    /\ minimizer = "lsmr"
    /\ predefined_covariance = None
    /\ alpha_cut = 1
    /\ filters =
          [fw  |-> [Alpha |-> 1, Covariance |-> NoCovariance, Output |-> NoGrid],
           adj |-> [Alpha |-> 1, Covariance |-> NoCovariance, Output |-> NoGrid]]
    /\ N_total_slice_voxels = 0
    /\ N_voxels_HR_volume = 0
    /\ iter_max = 10
    /\ statistics = [elapsed_time_sec |-> NoValue, residual_ell2 |-> NoValue,
                     residual_prior |-> NoValue]
    /\ evaluations = NotEvaluating
    /\ last = Idle
    /\ ImageDataReader_init({"ImageDirectoryReader"})

InitFusion == VolumeReconstruction_init(FusionStackLists, FusionVolumes)

NextFusion ==
    \/ update_reconstructed_volume
    \/ _use_discrete_shepard_based_on_Deriche
    \/ Return

SpecFusion == InitFusion /\ [][NextFusion]_vars


-----------------------------------------------------------------------------
(* Stack lists in which one slice carries a mask on another grid than its   *)
(* own: the mask's origin is one voxel off along x.                         *)

MaskShifted(S, ij) ==
    [S EXCEPT ![ij[1]].slices[ij[2]].itk_mask.origin[1] = @ + 1]

MaskGridStackLists ==
    UNION { { MaskShifted(S, LoopOrder(S, 1)[n]) :
                 n \in 1..Len(LoopOrder(S, 1)) } : S \in StackLists }

InitMaskGrid ==
    /\ Constructor(MaskGridStackLists, HRSizes, {"lsmr"}, {"full_3D"}, {},
                   {1}, {10})
    /\ ImageDataReader_init({"ImageDirectoryReader"})

NextMaskGrid ==
    \/ \E x \in TestVecs(N_voxels_HR_volume) :
          CallPlain(x, Ramp(N_total_slice_voxels))
    \/ \E x \in TestVecs(N_voxels_HR_volume) : CallResidual(x)
    \/ Return

SpecMaskGrid == InitMaskGrid /\ [][NextMaskGrid]_vars

-----------------------------------------------------------------------------
(* _Ak and _Ak_adj step by step.  Two evaluations, of two different slices, *)
(* run at once on the solver's two filter objects; each takes the steps of  *)
(* its method in order, and the steps of the two interleave.                *)

\* the slice evaluation e is about
SliceOf(e) == stacks[e.i].slices[e.j]

\* the filter object _Ak (dir "fw") or _Ak_adj (dir "adj") works with
Evaluation(dir, ij, x) ==
    [dir |-> dir, i |-> ij[1], j |-> ij[2], x |-> x, pc |-> "configure",
     out |-> Image(NoGrid, <<>>)]

\* the image the method hands to SetInput
InputOf(e) ==
    IF e.dir = "fw" THEN Image(HR_volume, e.x) ELSE Image(SliceOf(e).itk, e.x)

\* arrays a method is called with: volume arrays for _Ak, arrays of the
\* slice for _Ak_adj
InputsOf(dir, ij) ==
    IF dir = "fw" THEN {Ramp(N_voxels_HR_volume), Unit(N_voxels_HR_volume, 1)}
    ELSE {Ramp(Prod3(stacks[ij[1]].slices[ij[2]].itk.size))}

FrameEvaluation ==
    UNCHANGED <<config, minimizer, predefined_covariance, alpha_cut, last,
                iter_max, statistics, reader>>

\* two calls are made, neither has taken a step
StartEvaluations(dir, ij1, ij2, x1, x2) ==
    /\ last = Idle
    /\ evaluations.th = <<>>
    /\ ij1 # ij2
    /\ evaluations' = [evaluations EXCEPT
                          !.th = <<Evaluation(dir, ij1, x1),
                                   Evaluation(dir, ij2, x2)>>]
    /\ UNCHANGED filters
    /\ FrameEvaluation

\* self._update_oriented_adjoint_oriented_Gaussian_image_filters[mode](slice_k)
Configure(t) ==
    /\ t \in DOMAIN evaluations.th
    /\ evaluations.th[t].pc = "configure"
    /\ filters' = _update_oriented_adjoint_oriented_Gaussian_image_filters(
                      deconvolution_mode, SliceOf(evaluations.th[t]), filters)
    /\ evaluations' = [evaluations EXCEPT !.th[t].pc = "set_input"]
    /\ FrameEvaluation

\* filter.SetInput(image)
SetInput(t) ==
    /\ t \in DOMAIN evaluations.th
    /\ evaluations.th[t].pc = "set_input"
    /\ evaluations' = [evaluations EXCEPT
                          !.th[t].pc = "update",
                          !.Input[evaluations.th[t].dir] =
                              InputOf(evaluations.th[t])]
    /\ UNCHANGED filters
    /\ FrameEvaluation

\* filter.UpdateLargestPossibleRegion(); filter.Update()
UpdateOutput(dir) ==
    IF dir = "fw"
    THEN OrientedGaussianInterpolateImageFilter(filters.fw,
                                                evaluations.Input.fw)
    ELSE AdjointOrientedGaussianInterpolateImageFilter(filters.adj,
                                                       evaluations.Input.adj)

Update(t) ==
    /\ t \in DOMAIN evaluations.th
    /\ evaluations.th[t].pc = "update"
    /\ evaluations' = [evaluations EXCEPT
                          !.th[t].pc = "read",
                          !.Output[evaluations.th[t].dir] =
                              UpdateOutput(evaluations.th[t].dir)]
    /\ UNCHANGED filters
    /\ FrameEvaluation

\* image = filter.GetOutput(); image.DisconnectPipeline(); return image
ReadOutput(t) ==
    /\ t \in DOMAIN evaluations.th
    /\ evaluations.th[t].pc = "read"
    /\ evaluations' = [evaluations EXCEPT
                          !.th[t].pc = "done",
                          !.th[t].out = evaluations.Output[evaluations.th[t].dir],
                          !.Output[evaluations.th[t].dir] = Image(NoGrid, <<>>)]
    /\ UNCHANGED filters
    /\ FrameEvaluation

\* both calls have returned
EndEvaluations ==
    /\ evaluations.th # <<>>
    /\ \A t \in DOMAIN evaluations.th : evaluations.th[t].pc = "done"
    /\ evaluations' = NotEvaluating
    /\ UNCHANGED filters
    /\ FrameEvaluation

InterleaveStackLists ==
    { <<MakeStack(k1), MakeStack(k2)>> :
         k1 \in StackKinds, k2 \in StackKinds }

InitInterleave ==
    /\ Constructor(InterleaveStackLists, {<<2, 1, 2>>}, {"lsmr"},
                   {"full_3D"}, {}, {1}, {10})
    /\ ImageDataReader_init({"ImageDirectoryReader"})

NextInterleave ==
    \/ \E dir \in {"fw", "adj"} :
          \E n1 \in 1..Len(LoopOrder(stacks, 1)),
             n2 \in 1..Len(LoopOrder(stacks, 1)) :
             \E x1 \in InputsOf(dir, LoopOrder(stacks, 1)[n1]),
                x2 \in InputsOf(dir, LoopOrder(stacks, 1)[n2]) :
                StartEvaluations(dir, LoopOrder(stacks, 1)[n1],
                                 LoopOrder(stacks, 1)[n2], x1, x2)
    \/ \E t \in 1..2 : Configure(t)
    \/ \E t \in 1..2 : SetInput(t)
    \/ \E t \in 1..2 : Update(t)
    \/ \E t \in 1..2 : ReadOutput(t)
    \/ EndEvaluations

SpecInterleave == InitInterleave /\ [][NextInterleave]_vars

-----------------------------------------------------------------------------
(* Solver: calls of _Ak and _Ak_adj one after the other on the shared       *)
(* filters.  An image a call returns is an object of its own or, were it     *)
(* left in the pipeline, the output object of its filter; evaluations.th    *)
(* holds the image the caller kept from the call before.                    *)

\* a variant of the end of a call that returns the filter's output object
\* as it is, still connected to the filter
GetOutput_connected(dir, img) ==
    [ret |-> [own |-> FALSE, dir |-> dir, img |-> Image(NoGrid, <<>>)],
     Output |-> img]

\* slice_itk = filter.GetOutput(); slice_itk.DisconnectPipeline(): the image
\* leaves the filter, whose next Update makes a new output object
DisconnectPipeline(dir, img) ==
    [ret |-> [own |-> TRUE, dir |-> dir, img |-> img],
     Output |-> Image(NoGrid, <<>>)]

\* the image behind what a call returned, as the caller sees it now
ImageOf(h) == IF h.own THEN h.img ELSE evaluations.Output[h.dir]

\* _Ak (dir "fw") or _Ak_adj (dir "adj") on the slice and the filters f
SliceCall(dir, x, slice_k, f) ==
    IF dir = "fw" THEN _Ak(Image(HR_volume, x), slice_k, f)
    ELSE _Ak_adj(Image(slice_k.itk, x), slice_k, f)

\* the state a call leaves: r is what the filters computed, d the returned
\* image and the filter's output object after it
SliceCallDone(dir, ij, x, r, d) ==
    /\ filters' = r.filt
    /\ evaluations' = [evaluations EXCEPT
          !.Input[dir] = IF dir = "fw" THEN Image(HR_volume, x)
                         ELSE Image(stacks[ij[1]].slices[ij[2]].itk, x),
          !.Output[dir] = d.Output]
    /\ last' = [op |-> "slice_call", dir |-> dir, i |-> ij[1], j |-> ij[2],
                x |-> x, ret |-> d.ret, returned |-> r.img]

CallSlice(dir, ij, x) ==
    /\ last = Idle
    /\ SliceCallDone(
           dir, ij, x,
           SliceCall(dir, x, stacks[ij[1]].slices[ij[2]], filters),
           DisconnectPipeline(
               dir,
               SliceCall(dir, x, stacks[ij[1]].slices[ij[2]], filters).img))
    /\ UNCHANGED <<config, minimizer, predefined_covariance, alpha_cut,
                   iter_max, statistics, reader>>

\* the call returns and its caller keeps the image
ReturnImage ==
    /\ last # Idle
    /\ evaluations' = [evaluations EXCEPT !.th = <<last>>]
    /\ last' = Idle
    /\ UNCHANGED <<config, minimizer, predefined_covariance, alpha_cut,
                   filters, iter_max, statistics, reader>>

InitHistory ==
    /\ Constructor(InterleaveStackLists, {<<2, 1, 2>>}, {"lsmr"},
                   {"full_3D", "only_in_plane"}, {}, {1}, {10})
    /\ ImageDataReader_init({"ImageDirectoryReader"})

NextHistory ==
    \/ \E dir \in {"fw", "adj"} :
          \E n \in 1..Len(LoopOrder(stacks, 1)) :
             \E x \in InputsOf(dir, LoopOrder(stacks, 1)[n]) :
                CallSlice(dir, LoopOrder(stacks, 1)[n], x)
    \/ ReturnImage

SpecHistory == InitHistory /\ [][NextHistory]_vars

-----------------------------------------------------------------------------
(* Solver: the backends.  sol is what the scipy routine hands back (for     *)
(* lsmr and lsqr the first entry of its result, for the others the field x  *)
(* of its result); a backend's outcome is the kind of object it returns     *)
(* ("ndarray" or "tuple") or the exception it ends with.                    *)

Returns(kind, v) == [kind |-> kind, v |-> v, exc |-> ""]

Raises(e) == [kind |-> "none", v |-> <<>>, exc |-> e]

\* arrays of n entries a scipy routine without bounds may hand back
Iterates(n) == [1..n -> (0 - MaxIterate)..MaxIterate]

\* arrays of n entries a scipy routine run with the bounds (0, inf) hands back
Bounded(n) == [1..n -> 0..MaxIterate]

SolverOutputs(name, n) ==
    IF name \in {"lsmr", "lsqr"} THEN Iterates(n) ELSE Bounded(n)

\* x = lsmr(A, b, ...)[0]; x = np.clip(x, 0, np.inf); return x
_get_approximate_solution_lsmr(b, x0, sol) == Returns("ndarray", Clip(sol))

\* HR_nda_vec = lsqr(A, b, maxiter=self._iter_max, show=True)[0]: scipy's lsqr
\* names its iteration limit iter_lim; accepted says whether it takes the
\* keyword maxiter.  Then x = np.clip(x, 0, np.inf) reads the local x, which
\* no statement has assigned
_get_approximate_solution_lsqr(b, x0, sol, accepted) ==
    IF accepted THEN Raises("UnboundLocalError") ELSE Raises("TypeError")

\* x0 = zeros, or np.clip(x0, 0, np.inf); bounds = [[0, None]] * x0.size;
\* HR_nda_vec = minimize(method='L-BFGS-B', ..., bounds=bounds).x.  The zeros
\* have the three-dimensional shape of the volume: accepted says whether
\* scipy's minimize takes an x0 of more than one dimension (and flattens it)
_get_approximate_solution_LBFGSB(b, x0, sol, accepted) ==
    IF x0 = None /\ ~accepted THEN Raises("ValueError")
    ELSE Returns("ndarray", sol)

\* x0 = np.clip(GetArrayFromImage(HR_volume.sitk).flatten(), 0, np.inf);
\* HR_nda_vec = least_squares(..., bounds=(0, np.inf)).x
_get_approximate_solution_least_squares(b, x0, sol) == Returns("ndarray", sol)

\* HR_nda_vec = lsq_linear(A, b, bounds=(0, np.inf), ...).x
_get_approximate_solution_lsq_linear(b, x0, sol) == Returns("ndarray", sol)

\* HR_nda_vec = nnls(A, b): scipy's nnls takes a dense matrix; accepted says
\* whether it takes the LinearOperator, and then the pair (x, rnorm) it
\* returns is handed on as it is
_get_approximate_solution_nnls(b, x0, sol, accepted) ==
    IF accepted THEN Returns("tuple", sol) ELSE Raises("ValueError")

\* the dictionary self._get_approximate_solution, looked up and called
_get_approximate_solution(name, b, x0, sol, accepted) ==
    CASE name = "lsmr" -> _get_approximate_solution_lsmr(b, x0, sol)
      [] name = "lsqr" -> _get_approximate_solution_lsqr(b, x0, sol, accepted)
      [] name = "nnls" -> _get_approximate_solution_nnls(b, x0, sol, accepted)
      [] name = "lsq_linear" -> _get_approximate_solution_lsq_linear(b, x0, sol)
      [] name = "L-BFGS-B" ->
           _get_approximate_solution_LBFGSB(b, x0, sol, accepted)
      [] name = "least_squares" ->
           _get_approximate_solution_least_squares(b, x0, sol)
      [] OTHER -> Raises("KeyError")

\* whether the backend gets as far as running its scipy routine, which
\* evaluates A_fw and A_bw
RunsSolver(name, accepted) ==
    /\ name \in Registered
    /\ name \in {"nnls", "lsqr", "L-BFGS-B"} => accepted

\* the iteration budget the backend hands to its scipy routine: maxiter
\* (lsmr, lsqr, L-BFGS-B), max_nfev (least_squares), max_iter (lsq_linear),
\* each self._iter_max; nnls(A, b) is handed none
IterationBudget(name) ==
    IF name \in {"lsmr", "lsqr", "L-BFGS-B", "least_squares", "lsq_linear"}
    THEN <<iter_max>>
    ELSE NoValue

\* the number of iterations a scipy routine may take: its budget, and for a
\* routine run without one scipy's own limit, 3 times the number of unknowns
IterationLimit(name, n) ==
    IF IterationBudget(name) # NoValue THEN IterationBudget(name)[1] ELSE 3 * n

\* the numbers of iterations a run of the backend may have taken
Iterations(name, n, accepted) ==
    IF RunsSolver(name, accepted) THEN 0..IterationLimit(name, n) ELSE {0}

\* x0 = np.clip(sitk.GetArrayFromImage(self._HR_volume.sitk).flatten(), 0, np.inf)
least_squares_x0(x0, HR) == Clip(HR.nda)

\* x0 = np.zeros(size[::-1]), as scipy flattens it, or np.clip(x0, 0, np.inf)
LBFGSB_x0(x0, HR) == IF x0 = None THEN Zeros(NVox(HR)) ELSE Clip(x0.v)

\* the x0 the backend hands to its scipy routine, if it hands one
StartingPoint(name, x0, HR) ==
    CASE name = "L-BFGS-B" -> <<LBFGSB_x0(x0, HR)>>
      [] name = "least_squares" -> <<least_squares_x0(x0, HR)>>
      [] OTHER -> NoValue

\* bounds = [[0, None]] * x0.size of L-BFGS-B; the other bounded routines
\* are handed the pair (0, np.inf), nnls none
Bounds(name, x0, HR) ==
    CASE name = "L-BFGS-B" ->
           <<[k \in 1..Len(LBFGSB_x0(x0, HR)) |->
                 [lower |-> <<0>>, upper |-> NoValue]]>>
      [] name \in {"least_squares", "lsq_linear"} ->
           <<[lower |-> <<0>>, upper |-> NoValue]>>
      [] OTHER -> NoValue

\* the filters after A_fw = _MA and A_bw = _A_adj_M have been evaluated
Evaluated(b, sol, f) == _A_adj_M(b, _MA(sol, f).filt).filt

SolveResult(name, b, x0, sol, accepted, nit, f) ==
    [op |-> "solve", minimizer |-> name, b |-> b, x0 |-> x0, sol |-> sol,
     nit |-> nit,
     budget |-> IF RunsSolver(name, accepted) THEN IterationBudget(name)
                ELSE NoValue,
     start |-> IF RunsSolver(name, accepted)
               THEN StartingPoint(name, x0, HR_volume) ELSE NoValue,
     bounds |-> IF RunsSolver(name, accepted)
                THEN Bounds(name, x0, HR_volume) ELSE NoValue,
     ret |-> _get_approximate_solution(name, b, x0, sol, accepted),
     filt |-> IF RunsSolver(name, accepted) THEN Evaluated(b, sol, f) ELSE f]

\* b = self._get_M_y()
CallGetMy ==
    /\ last = Idle
    /\ last' = [op |-> "M_y", my |-> _get_M_y(filters)]
    /\ UNCHANGED filters
    /\ Frame

\* self._get_approximate_solution[self._minimizer](A_fw, A_bw, b, x0) on the
\* right-hand side b assembled before
Solve(x0, sol, accepted, nit) ==
    /\ last.op = "M_y"
    /\ last.my.exc = ""
    /\ last' = SolveResult(minimizer, last.my.vec, x0, sol, accepted, nit,
                           filters)
    /\ filters' = last'.filt
    /\ Frame

\* initial values handed to a backend
Guesses(n) == {None, [shape |-> <<n>>, v |-> Ramp(n)]}

BackendStackLists ==
    { <<MakeStack(k)>> : k \in {q \in StackKinds : q.masked = 0} }

InitBackend ==
    /\ Constructor(BackendStackLists, {<<2, 1, 2>>}, MinimizerNames,
                   {"full_3D"}, {}, {1}, IterMaxes)
    /\ ImageDataReader_init({"ImageDirectoryReader"})

NextBackend ==
    \/ \E m \in MinimizerNames : set_minimizer(m)
    \/ \E n \in IterMaxes : set_iter_max(n)
    \/ CallGetMy
    \/ \E x0 \in Guesses(N_voxels_HR_volume),
          sol \in SolverOutputs(minimizer, N_voxels_HR_volume) :
          \E accepted \in IF minimizer \in {"nnls", "lsqr"} THEN BOOLEAN
                          ELSE IF minimizer = "L-BFGS-B" /\ x0 = None
                          THEN BOOLEAN
                          ELSE {TRUE} :
             \E nit \in Iterations(minimizer, N_voxels_HR_volume, accepted) :
                Solve(x0, sol, accepted, nit)
    \/ Return

SpecBackend == InitBackend /\ [][NextBackend]_vars

-----------------------------------------------------------------------------
(* Properties of the backends (SpecBackend) *)

NonNegative(v) == \A k \in 1..Len(v) : v[k] >= 0

Solved == last.op = "solve" /\ last.minimizer \in Registered

\* C1: every registered backend returns an array whose entries are all >= 0,
\* and lsmr and lsqr return the clipped array of what their routine hands back
C1_Nonnegativity ==
    Solved =>
       /\ last.ret.exc = "" =>
             last.ret.kind = "ndarray" /\ NonNegative(last.ret.v)
       /\ last.minimizer \in {"lsmr", "lsqr"} =>
             last.ret = Returns("ndarray", Clip(last.sol))

\* C2: every registered backend returns, without raising, one array of
\* N_voxels_HR_volume entries
C2_OutputContract ==
    Solved =>
       /\ last.ret.exc = ""
       /\ last.ret.kind = "ndarray"
       /\ Len(last.ret.v) = N_voxels_HR_volume

\* C3: with a minimizer name that is not registered no right-hand side is
\* assembled: the configuration has been refused before
C3_FailsFast ==
    (last.op = "M_y" /\ last.my.exc = "") => minimizer \in Registered

-----------------------------------------------------------------------------
(* Properties of the augmented system (Spec) *)

\* the voxel count of the slice the pair ij = (i, j) names
VoxelCount(ij) == Prod3(stacks[ij[1]].slices[ij[2]].itk.size)

\* the sum of the voxel counts of the first n slices in loop order
VoxelsBefore(order, n) == Sum([m \in 1..n |-> VoxelCount(order[m])])

\* the offset table: one contiguous range per slice, in loop order, as long
\* as the slice's own voxel count
OffsetTableOf(order) ==
    [n \in 1..Len(order) |->
        Seg(order[n][1], order[n][2],
            VoxelsBefore(order, n - 1), VoxelsBefore(order, n))]

OffsetTable == OffsetTableOf(LoopOrder(stacks, 1))

TotalSliceVoxels ==
    VoxelsBefore(LoopOrder(stacks, 1), Len(LoopOrder(stacks, 1)))

\* C4: for x of N_voxels_HR_volume entries, y of N_total_slice_voxels +
\* 3 N_voxels_HR_volume entries and every alpha,
\* dot(_A_TK1(x, alpha), y) = dot(x, _A_adj_TK1(y, alpha))
C4_AugmentedAdjoint ==
    (last.op = "TK1" /\ Len(last.y) = NAug) =>
       /\ last.fw.exc = ""
       /\ last.bw.exc = ""
       /\ Len(last.fw.out) = NAug
       /\ Len(last.bw.out) = N_voxels_HR_volume
       /\ Dot(last.fw.out, last.y) = Dot(last.x, last.bw.out)

C4_Witness ==
    /\ last.op = "TK1"
    /\ last.alpha = 4
    /\ Len(stacks) = 2
    /\ last.y = Ramp(NAug)
    /\ last.bw.exc = ""
    /\ Dot(last.fw.out, last.y) # 0
    /\ \E k \in (N_total_slice_voxels + 1)..NAug : last.fw.out[k] # 0

\* C5: _get_M_y, _MA and _A_adj_M give every slice the same index range, and
\* the ranges are those of the offset table
C5_SegmentBoundaries ==
    last.op = "plain" =>
       /\ last.my.exc = "" /\ last.fw.exc = "" /\ last.bw.exc = ""
       /\ last.my.segs = OffsetTable
       /\ last.fw.segs = OffsetTable
       /\ last.bw.segs = OffsetTable

C5_Witness ==
    /\ last.op = "plain"
    /\ Len(stacks) = 2
    /\ Len(last.bw.segs) >= 3
    /\ N_slice_voxels(1) # N_slice_voxels(2)
    /\ last.bw.segs = last.fw.segs

\* C6: the arrays of _get_M_y and _MA are as long as the sum of the slices'
\* voxel counts, and the walks end with i_min = N_total_slice_voxels
C6_StackedLength ==
    last.op = "plain" =>
       /\ Len(last.my.vec) = TotalSliceVoxels
       /\ Len(last.fw.vec) = TotalSliceVoxels
       /\ last.my.i_min = N_total_slice_voxels
       /\ last.fw.i_min = N_total_slice_voxels

\* _MA(x) and _A_adj_M(y) of the plain system for the x and y of the last call
PlainForward == _MA(last.x, filters).vec

PlainAdjoint == _A_adj_M(last.y, filters).vec

\* C7 as stated: _A_TK1(x, 0) = _MA(x), and for y of N_total_slice_voxels
\* entries _A_adj_TK1(y, 0) = _A_adj_M(y)
C7_ReductionAsStated ==
    (last.op = "TK1" /\ last.alpha = 0) =>
       /\ last.fw.out = PlainForward
       /\ Len(last.y) = N_total_slice_voxels =>
             last.bw.exc = "" /\ last.bw.out = PlainAdjoint

\* C7: the first N_total_slice_voxels entries of _A_TK1(x, 0) are _MA(x)
\* and the other 3 N_voxels_HR_volume are 0, and for y of
\* N_total_slice_voxels + 3 N_voxels_HR_volume entries
\* _A_adj_TK1(y, 0) = _A_adj_M(y)
C7_ZeroRegularization ==
    (last.op = "TK1" /\ last.alpha = 0 /\ Len(last.y) = NAug) =>
       /\ last.fw.exc = "" /\ last.bw.exc = ""
       /\ last.fw.out = PlainForward \o Zeros(3 * N_voxels_HR_volume)
       /\ last.bw.out = PlainAdjoint

C7_Witness ==
    /\ last.op = "TK1"
    /\ last.alpha = 0
    /\ Len(last.y) = NAug
    /\ Len(stacks) >= 1
    /\ \E k \in 1..N_total_slice_voxels : last.fw.out[k] # 0
    /\ \E k \in 1..Len(_D(last.x).out) : _D(last.x).out[k] # 0
    /\ \E k \in 1..N_voxels_HR_volume : last.bw.out[k] # 0

\* C9 as stated: for y of 3 N_voxels_HR_volume entries,
\* dot(_D(x), y) = dot(x, _D_adj(y))
C9_AdjointAsStated ==
    (last.op = "D" /\ Len(last.y) = 3 * N_voxels_HR_volume) =>
       /\ last.bw.exc = ""
       /\ Dot(last.fw.out, last.y) = Dot(last.x, last.bw.out)

\* C9: for y of N_total_slice_voxels + 3 N_voxels_HR_volume entries,
\* dot(_D(x), y[N_total_slice_voxels:]) = dot(x, _D_adj(y))
C9_DifferentialAdjoint ==
    (last.op = "D" /\ Len(last.y) = NAug) =>
       /\ last.fw.exc = "" /\ last.bw.exc = ""
       /\ Len(last.fw.out) = 3 * N_voxels_HR_volume
       /\ Dot(last.fw.out, PySlice(last.y, N_total_slice_voxels, NAug))
             = Dot(last.x, last.bw.out)

C9_Witness ==
    /\ last.op = "D"
    /\ N_total_slice_voxels > 0
    /\ last.y = Ramp(NAug)
    /\ last.bw.exc = ""
    /\ Dot(last.x, last.bw.out) # 0

-----------------------------------------------------------------------------
(* Properties of the shared filters (SpecFilters) *)

\* C8: for every slice, v and u, dot(_Ak(v), u) = dot(v, _Ak_adj(u)), in
\* each deconvolution mode
C8_SliceAdjoint ==
    last.op = "Ak" =>
       /\ Len(last.fw.img.nda) = Len(last.y)
       /\ Len(last.bw.img.nda) = Len(last.x)
       /\ Dot(last.fw.img.nda, last.y) = Dot(last.x, last.bw.img.nda)

C8_Witness ==
    /\ last.op = "Ak"
    /\ deconvolution_mode = "only_in_plane"
    /\ alpha_cut = 2
    /\ Dot(last.fw.img.nda, last.y) # 0
    /\ \E k \in 1..Len(last.bw.img.nda) : last.bw.img.nda[k] = 0

\* C10: both filters hold the cut-off alpha_cut, after a filter update both
\* hold the same covariance, and the adjoint filter's output grid is the
\* HR volume's
C10_FiltersAgree ==
    /\ filters.fw.Alpha = alpha_cut
    /\ filters.adj.Alpha = alpha_cut
    /\ filters.fw.Output # NoGrid =>
          filters.fw.Covariance = filters.adj.Covariance
    /\ filters.adj.Output = Grid(HR_volume)

C10_Witness ==
    /\ filters.fw.Output # NoGrid
    /\ filters.fw.Covariance # NoCovariance
    /\ alpha_cut = 2
    /\ filters.adj.Alpha = 2
    /\ last = Idle

\* the slice the last call was about
LastSlice == stacks[last.i].slices[last.j]

\* the elementwise product of the array u with the mask of the slice
Masked(u, slice_k) == [k \in 1..Len(u) |-> slice_k.itk_mask.nda[k] * u[k]]

\* C11: _Mk is the elementwise product with the slice's 0/1 mask and so
\* self-adjoint, _Mk_Ak is M_k after A_k, and _Ak_adj_Mk is A_k^* after M_k
C11_Masking ==
    last.op = "Mk" =>
       /\ last.Mu.exc = "" /\ last.Mw.exc = ""
       /\ last.Mu.img.nda = Masked(last.u, LastSlice)
       /\ Dot(last.Mu.img.nda, last.w) = Dot(last.u, last.Mw.img.nda)
       /\ last.fw.img.nda =
             Masked(_Ak(Image(HR_volume, last.x), LastSlice, filters).img.nda,
                    LastSlice)
       /\ last.bw.img.nda =
             _Ak_adj(Image(LastSlice.itk, Masked(last.u, LastSlice)),
                     LastSlice, filters).img.nda

C11_Witness ==
    /\ last.op = "Mk"
    /\ \E k \in 1..Len(last.u) :
          /\ LastSlice.itk_mask.nda[k] = 0
          /\ last.u[k] # 0
          /\ _Ak(Image(HR_volume, last.x), LastSlice, filters).img.nda[k] # 0
    /\ Dot(last.Mu.img.nda, last.w) # 0
    /\ \E k \in 1..Len(last.bw.img.nda) : last.bw.img.nda[k] # 0

\* (A_k x - y_k)[k]^2 for the voxels the mask of the slice keeps, 0 for the
\* voxels it rules out
SliceResidualAt(Akx, slice_k, k) ==
    IF slice_k.itk_mask.nda[k] = 0 THEN 0
    ELSE (Akx[k] - slice_k.itk.nda[k]) * (Akx[k] - slice_k.itk.nda[k])

\* || M_k (A_k x - y_k) ||^2 of one slice, A_k x given
SliceResidualOf(Akx, slice_k) ==
    Sum([k \in 1..Len(Akx) |-> SliceResidualAt(Akx, slice_k, k)])

SliceResidual(x, ij) ==
    SliceResidualOf(_Ak(Image(HR_volume, x), stacks[ij[1]].slices[ij[2]],
                        filters).img.nda,
                    stacks[ij[1]].slices[ij[2]])

\* sum_k || M_k (A_k x - y_k) ||^2 over the slices of all stacks
ResidualBySlices(x) ==
    Sum([n \in 1..Len(LoopOrder(stacks, 1)) |->
            SliceResidual(x, LoopOrder(stacks, 1)[n])])

C12_Value ==
    last.op = "residual" =>
       /\ last.ret.exc = ""
       /\ last.ret.v = ResidualBySlices(last.x)
       /\ last.ret.v >= 0

\* C12: for every x of N_voxels_HR_volume entries _get_residual_ell2(x) is
\* sum_k || M_k (A_k x - y_k) ||^2, which is >= 0 and to which the voxels a
\* mask rules out contribute nothing, and computing it leaves the volume and
\* the stacks with their slices as they were
C12_Residual ==
    /\ []C12_Value
    /\ [][last'.op = "residual" =>
             stacks' = stacks /\ HR_volume' = HR_volume]_vars

C12_Witness ==
    /\ last.op = "residual"
    /\ last.ret.exc = ""
    /\ last.ret.v > 0
    /\ Len(stacks) = 2
    /\ \E n \in 1..Len(LoopOrder(stacks, 1)) :
          LET s == stacks[LoopOrder(stacks, 1)[n][1]].slices[LoopOrder(stacks, 1)[n][2]]
              a == _Ak(Image(HR_volume, last.x), s, filters).img.nda
          IN  \E k \in 1..Len(a) : s.itk_mask.nda[k] = 0 /\ a[k] # s.itk.nda[k]

\* C13: no evaluation of _MA, _A_adj_M, _get_M_y, _A_TK1, _A_adj_TK1, _D,
\* _D_adj or _get_residual_ell2, in any order, changes a stack, a slice, a
\* mask or the geometry or the voxel array of the volume
C13_InputsReadOnly == [][stacks' = stacks /\ HR_volume' = HR_volume]_vars

C13_Witness ==
    /\ last.op = "TK1"
    /\ last.fw.exc = "" /\ last.bw.exc = ""
    /\ \E k \in 1..Len(last.bw.out) : last.bw.out[k] # 0
    /\ Len(stacks) > 0
    /\ HR_volume.nda = Zeros(N_voxels_HR_volume)

\* the image a sequential call of _Ak or _Ak_adj returns for evaluation e
Sequential(e) ==
    IF e.dir = "fw" THEN _Ak(InputOf(e), SliceOf(e), filters).img
    ELSE _Ak_adj(InputOf(e), SliceOf(e), filters).img

\* C14: when the steps of the per-slice evaluations of two different slices
\* interleave, each evaluation returns the image its sequential call returns
C14_SliceIndependence ==
    \A t \in DOMAIN evaluations.th :
       evaluations.th[t].pc = "done" =>
          evaluations.th[t].out = Sequential(evaluations.th[t])

\* C15: every registered backend runs its routine with the budget iter_max,
\* the run takes at most iter_max iterations, and the backend returns
C15_IterationBudget ==
    Solved =>
       /\ last.budget = <<iter_max>>
       /\ last.nit <= iter_max
       /\ last.ret.exc = ""

\* C16: a constructed solver has a total slice voxel count above zero: the
\* constructor refuses an empty stack list and stacks without voxels
C16_EmptyInputRefused == N_total_slice_voxels > 0

\* C17: when a slice's mask lies on another grid than the slice, the error
\* ends _get_M_y and _MA before any slice has been written into the stacked
\* array
C17_MaskMismatchFailsFast ==
    last.op = "plain" =>
       /\ last.my.exc # "" =>
             last.my.segs = <<>> /\ last.my.vec = Zeros(N_total_slice_voxels)
       /\ last.fw.exc # "" =>
             last.fw.segs = <<>> /\ last.fw.vec = Zeros(N_total_slice_voxels)

\* the 3x3 matrix the solver is to hold for the covariance argument cov
StoredCovariance(cov) ==
    [shape |-> <<3, 3>>,
     v |-> IF cov.shape = <<3>>
           THEN <<cov.v[1], 0, 0, 0, cov.v[2], 0, 0, 0, cov.v[3]>>
           ELSE cov.v]

C18_Stored ==
    deconvolution_mode = "predefined_covariance" =>
       /\ get_predefined_covariance \in {StoredCovariance(cov) : cov \in CovArgs}
       /\ last.op = "Ak" =>
             /\ last.fw.filt.fw.Covariance = get_predefined_covariance.v
             /\ last.bw.filt.adj.Covariance = get_predefined_covariance.v
             /\ filters.fw.Covariance = get_predefined_covariance.v
             /\ filters.adj.Covariance = get_predefined_covariance.v

\* C18: three values are stored as the diagonal 3x3 matrix and a 3x3 matrix
\* as it is, get_predefined_covariance returns the stored matrix, and in
\* the mode predefined_covariance both filters are set to the stored matrix
C18_PredefinedCovariance ==
    /\ []C18_Stored
    /\ [][\A cov \in CovArgs :
             set_predefined_covariance(cov) =>
                get_predefined_covariance' = StoredCovariance(cov)]_vars

C18_Witness ==
    /\ deconvolution_mode = "predefined_covariance"
    /\ last.op = "Ak"
    /\ get_predefined_covariance = StoredCovariance([shape |-> <<3>>, v |-> <<1, 1, 4>>])
    /\ filters.fw.Covariance = <<1, 0, 0, 0, 1, 0, 0, 0, 4>>
    /\ filters.fw.Covariance #
          get_gaussian_PSF_covariance_matrix_HR_volume_coordinates(
              LastSlice, HR_volume)

\* the attribute the accessor of the last call reads
Recorded ==
    CASE last.op = "get_computational_time" -> statistics.elapsed_time_sec
      [] last.op = "get_residual_ell2" -> statistics.residual_ell2
      [] last.op = "get_residual_prior" -> statistics.residual_prior

C20_ReaderLifecycle ==
    last.op = "get_data" =>
       /\ reader.reads = 0 =>
             last.ret = [v |-> <<>>, exc |-> "ObjectNotCreated"]
       /\ (reader.reads > 0 /\ reader.exc = "") =>
             /\ last.ret.exc = ""
             /\ last.ret.v = [k \in 1..reader.found |-> Stack(k, reader.reads)]

C20_Witness ==
    /\ last.op = "get_data"
    /\ reader.reads = 2
    /\ reader.exc = ""
    /\ reader.found = 1
    /\ last.ret.v = <<Stack(1, 2)>>

\* the Stacks of the list the reader holds
Items == reader._stacks.items

\* the names in the listing that are images, not masks
ImagesListed == {f \in reader.listing : ~f.mask}

\* C21: ImageDirectoryReader.read_data raises DirectoryNotExistent and
\* leaves the stored list as it was when the directory is missing;
\* otherwise a read that returns stores exactly one Stack per image base
\* name, none for a name with the mask suffix, in case-insensitive natural
\* order of the base names, each with the mask file of its base name when
\* the directory has one and with no mask otherwise
C21_Read ==
    (reader.class = "ImageDirectoryReader" /\ last.op = "read_data") =>
       /\ ~reader.directory_exists => last.exc = "DirectoryNotExistent"
       /\ (reader.directory_exists /\ last.exc = "") =>
             /\ Len(Items) = Cardinality({BaseName(f) : f \in ImagesListed})
             /\ {BaseName(s.image[1]) : s \in {Items[i] : i \in 1..Len(Items)}}
                   = {BaseName(f) : f \in ImagesListed}
             /\ \A i \in 1..Len(Items) :
                   /\ Items[i].built
                   /\ Items[i].image[1] \in ImagesListed
                   /\ IF \E m \in reader.listing :
                            m.mask /\ BaseName(m) = BaseName(Items[i].image[1])
                      THEN /\ Items[i].mask # NoValue
                           /\ Items[i].mask[1] \in reader.listing
                           /\ Items[i].mask[1].mask
                           /\ BaseName(Items[i].mask[1])
                                 = BaseName(Items[i].image[1])
                      ELSE Items[i].mask = NoValue
             /\ \A i, j \in 1..Len(Items) :
                   (i < j) =>
                      LET x == Items[i].image[1]
                          y == Items[j].image[1]
                      IN  \/ Code(Lower(x.stem)) < Code(Lower(y.stem))
                          \/ /\ Lower(x.stem) = Lower(y.stem)
                             /\ x.num <= y.num

C21_ImageDirectoryReader ==
    /\ []C21_Read
    /\ [][(reader.class = "ImageDirectoryReader"
           /\ ~reader.directory_exists)
          => reader'._stacks = reader._stacks]_vars

C21_Witness ==
    /\ reader.class = "ImageDirectoryReader"
    /\ last.op = "read_data"
    /\ last.exc = ""
    /\ Len(Items) = 2
    /\ Items[1].image[1].stem = "a"
    /\ Items[1].mask # NoValue
    /\ Items[2].image[1].stem = "B"
    /\ Items[2].mask = NoValue

\* the first path of file_paths whose checks raise (0: none)
FirstFaulty ==
    IF Faulty(reader.file_paths) = {} THEN 0
    ELSE CHOOSE i \in Faulty(reader.file_paths) :
            \A j \in Faulty(reader.file_paths) : i <= j

\* a read of the MultipleImagesReader in which building no Stack failed
C22_Case ==
    /\ reader.class = "MultipleImagesReader"
    /\ last.op = "read_data"
    /\ last.exc # "RuntimeError"

\* the list has one Stack per path, the i-th built from the i-th path and
\* from a mask file of its base name in its directory, if there is one
C22_Result ==
    /\ Len(Items) = Len(reader.file_paths)
    /\ \A i \in 1..Len(Items) :
          /\ Items[i].built
          /\ Items[i].image = <<reader.file_paths[i]>>
          /\ IF \E m \in reader.listing :
                   m.mask /\ BaseName(m) = BaseName(reader.file_paths[i])
             THEN /\ Items[i].mask # NoValue
                  /\ Items[i].mask[1] \in reader.listing
                  /\ Items[i].mask[1].mask
                  /\ BaseName(Items[i].mask[1]) = BaseName(reader.file_paths[i])
             ELSE Items[i].mask = NoValue

\* C22 as stated: MultipleImagesReader.read_data yields the Stacks of the
\* paths in the order given, raises IOError for a path that does not end in
\* an allowed extension and DirectoryNotExistent for a path whose directory
\* is missing
C22_AsStated ==
    C22_Case =>
       /\ (\E i \in 1..Len(reader.file_paths) :
              reader.file_paths[i].ext = "txt") => last.exc = "IOError"
       /\ (\E i \in 1..Len(reader.file_paths) :
              reader.file_paths[i].dir = "gone")
             => last.exc = "DirectoryNotExistent"
       /\ last.exc = "" => C22_Result

\* C22, amended: the first path with a missing directory or a wrong
\* extension decides the exception, DirectoryNotExistent when its directory
\* is missing, whatever its extension, and IOError otherwise; with no such
\* path the read yields the Stacks of the paths in the order given, each
\* with the mask of its base name when its directory has one
C22_MultipleImagesReader ==
    C22_Case =>
       IF FirstFaulty = 0 THEN last.exc = "" /\ C22_Result
       ELSE last.exc = (IF reader.file_paths[FirstFaulty].dir = "gone"
                        THEN "DirectoryNotExistent" ELSE "IOError")

C22_Witness ==
    /\ C22_Case
    /\ Len(reader.file_paths) = 2
    /\ reader.file_paths[1].stem = "B"
    /\ reader.file_paths[2].stem = "a"
    /\ last.exc = ""
    /\ Items[1].mask # NoValue
    /\ Items[2].mask = NoValue

\* a path with a wrong extension in a missing directory
C22_WitnessBoth ==
    /\ C22_Case
    /\ Len(reader.file_paths) = 1
    /\ reader.file_paths[1].dir = "gone"
    /\ reader.file_paths[1].ext = "txt"
    /\ last.exc = "DirectoryNotExistent"

\* the prefixes of the slice files of the directory
PrefixesListed == {BaseName(f) : f \in reader.listing}

\* the slice numbers the directory has for a prefix
SliceNumbers(b) == {f.k : f \in {g \in reader.listing : BaseName(g) = b}}

\* the prefix of the i-th Stack of the reader
PrefixOf(i) == Items[i].prefix_stack[1]

\* the selected names that were found, in the order of the selection
RECURSIVE SelectionFound(_)
SelectionFound(sel) ==
    IF sel = <<>> THEN <<>>
    ELSE (IF Head(sel) \in PrefixesListed THEN <<Head(sel)>> ELSE <<>>)
         \o SelectionFound(Tail(sel))

\* C23: after a read of the ImageSlicesDirectoryReader that returned, the
\* Stacks are the distinct slice-file prefixes in case-insensitive natural
\* order, or with an image_selection the selected names that were found,
\* in the order of the selection; get_slice_transforms_sitk returns a list
\* as long as the Stacks whose i-th entry has one transform per slice of
\* the i-th Stack, in ascending slice number, each read from the .tfm
\* file of that slice
C23_SlicesReader ==
    (/\ reader.class = "ImageSlicesDirectoryReader"
     /\ last.op = "get_slice_transforms_sitk"
     /\ reader.reads > 0 /\ reader.exc = "") =>
       /\ \A i \in 1..Len(Items) : Items[i].built
       /\ IF reader.image_selection = NoValue
          THEN /\ Len(Items) = Cardinality(PrefixesListed)
               /\ {PrefixOf(i) : i \in 1..Len(Items)} = PrefixesListed
               /\ \A i, j \in 1..Len(Items) :
                     (i < j) =>
                        \/ Code(Lower(PrefixOf(i).stem))
                              < Code(Lower(PrefixOf(j).stem))
                        \/ /\ Lower(PrefixOf(i).stem) = Lower(PrefixOf(j).stem)
                           /\ PrefixOf(i).num < PrefixOf(j).num
          ELSE [i \in 1..Len(Items) |-> PrefixOf(i)]
                  = SelectionFound(reader.image_selection[1])
       /\ last.ret.exc = ""
       /\ Len(last.ret.v) = Len(Items)
       /\ \A i \in 1..Len(Items) :
             LET T == last.ret.v[i][1]
             IN  /\ Len(T) = Cardinality(SliceNumbers(PrefixOf(i)))
                 /\ {T[n].tfm.k : n \in 1..Len(T)} = SliceNumbers(PrefixOf(i))
                 /\ \A n \in 1..Len(T) :
                       /\ T[n].tfm.stem = PrefixOf(i).stem
                       /\ T[n].tfm.num = PrefixOf(i).num
                 /\ \A n, m \in 1..Len(T) : (n < m) => T[n].tfm.k < T[m].tfm.k

C23_Witness ==
    /\ reader.class = "ImageSlicesDirectoryReader"
    /\ last.op = "get_slice_transforms_sitk"
    /\ reader.reads > 0 /\ reader.exc = ""
    /\ reader.image_selection = NoValue
    /\ Len(Items) = 2
    /\ PrefixOf(1).stem = "a"
    /\ PrefixOf(2).stem = "B"
    /\ Len(last.ret.v[1][1]) = 2
    /\ Len(last.ret.v[2][1]) = 1

\* a selection in another order than the sorted one
C23_WitnessSelection ==
    /\ reader.class = "ImageSlicesDirectoryReader"
    /\ last.op = "get_slice_transforms_sitk"
    /\ reader.reads > 0 /\ reader.exc = ""
    /\ reader.image_selection # NoValue
    /\ Len(reader.image_selection[1]) = 2
    /\ Len(Items) = 2
    /\ PrefixOf(1).stem = "B"
    /\ PrefixOf(2).stem = "a"

\* the transforms the reader holds
Transforms == reader._transforms_sitk.items

\* the class the third line of a .tfm file names
TypeNamed(file) ==
    IF file.type = "Euler3DTransform_double_3_3" THEN "Euler3DTransform"
    ELSE IF file.type = "AffineTransform_double_3_3" THEN "AffineTransform"
    ELSE "other"

\* C24: MultipleTransformationsReader.read_data yields a list as long as
\* file_paths whose i-th element is the transform of the i-th file as the
\* type its third line names, Euler3DTransform or AffineTransform, and
\* raises when a file names another type; TransformationDirectoryReader
\* .read_data yields the transforms of the matching files of the directory
\* in case-insensitive natural order of their paths
C24_TransformReaders ==
    /\ (reader.class = "MultipleTransformationsReader"
        /\ last.op = "read_data") =>
          /\ (\E i \in 1..Len(reader.file_paths) :
                 TypeNamed(reader.file_paths[i]) = "other") => last.exc # ""
          /\ last.exc = "" =>
                /\ Len(Transforms) = Len(reader.file_paths)
                /\ \A i \in 1..Len(Transforms) :
                      /\ Transforms[i].read_from = reader.file_paths[i]
                      /\ Transforms[i].class = TypeNamed(reader.file_paths[i])
                      /\ Transforms[i].class
                            \in {"Euler3DTransform", "AffineTransform"}
    /\ (reader.class = "TransformationDirectoryReader"
        /\ last.op = "read_data" /\ last.exc = "") =>
          /\ Len(Transforms)
                = Cardinality({f \in reader.listing : f.ext = "tfm"})
          /\ {Transforms[i].read_from : i \in 1..Len(Transforms)}
                = {f \in reader.listing : f.ext = "tfm"}
          /\ \A i \in 1..Len(Transforms) :
                Transforms[i].class = TypeNamed(Transforms[i].read_from)
          /\ \A i, j \in 1..Len(Transforms) :
                (i < j) =>
                   LET x == Transforms[i].read_from
                       y == Transforms[j].read_from
                   IN  \/ Code(Lower(x.stem)) < Code(Lower(y.stem))
                       \/ /\ Lower(x.stem) = Lower(y.stem)
                          /\ x.num < y.num

C24_Witness ==
    /\ reader.class = "MultipleTransformationsReader"
    /\ last.op = "read_data"
    /\ last.exc = ""
    /\ Len(Transforms) = 2
    /\ Transforms[1].class = "AffineTransform"
    /\ Transforms[2].class = "Euler3DTransform"
    /\ Transforms[1].read_from.stem = "B"
    /\ Transforms[2].read_from.stem = "a"

\* a file of another type makes the read raise
C24_WitnessOther ==
    /\ reader.class = "MultipleTransformationsReader"
    /\ last.op = "read_data"
    /\ last.exc = "KeyError"
    /\ Len(reader.file_paths) = 2
    /\ TypeNamed(reader.file_paths[2]) = "other"

\* a directory read that sorts
C24_WitnessDirectory ==
    /\ reader.class = "TransformationDirectoryReader"
    /\ last.op = "read_data"
    /\ last.exc = ""
    /\ Cardinality(reader.listing) = 3
    /\ Len(Transforms) = 2
    /\ Transforms[1].read_from.stem = "a"
    /\ Transforms[2].read_from.stem = "B"

\* a call of the fusion has just computed the volume
Fused ==
    last.op \in {"update_reconstructed_volume",
                 "_use_discrete_shepard_based_on_Deriche"}

\* C25: in the Shepard fusion no voxel of the volume is computed by a
\* division by a zero denominator, voxels that no slice hits included, and
\* no denominator is replaced by a constant
C25_NoZeroDenominator ==
    Fused =>
       /\ \A k \in 1..Len(last.nda_D) : last.nda_D[k] # 0
       /\ last.replaced = {}

\* the volume after a fusion in which no slice hit any voxel
C25_Reached ==
    /\ last.op = "update_reconstructed_volume"
    /\ Len(stacks) = 1
    /\ \A k \in 1..Len(last.nda_D) : last.nda_D[k] = 0
    /\ \A k \in 1..Len(HR_volume.nda) : HR_volume.nda[k].kind = "nan"

\* the intensity the n-th slice of the stack manager has at voxel k of the
\* volume after nearest-neighbour resampling
ResampledAt(n, k) == Resample(SlicesFrom(stacks, 1)[n].sitk, HR_volume, 0)[k]

NSlices == Len(SlicesFrom(stacks, 1))

\* C29: once the fusion has accumulated all slices, the denominator array
\* holds at each voxel the number of slices whose resampled intensity
\* there is strictly positive and the numerator array the sum of exactly
\* those intensities, so that one is zero exactly when the other is;
\* slices with a value <= 0 at a voxel add to neither
C29_Accumulation ==
    Fused =>
       \A k \in 1..Len(last.helper_D_nda) :
          /\ last.helper_D_nda[k]
                = Cardinality({n \in 1..NSlices : ResampledAt(n, k) > 0})
          /\ last.helper_N_nda[k]
                = SumTo([n \in 1..NSlices |->
                            IF ResampledAt(n, k) > 0 THEN ResampledAt(n, k)
                            ELSE 0], NSlices)
          /\ (last.helper_D_nda[k] = 0) = (last.helper_N_nda[k] = 0)

C29_Witness ==
    /\ last.op = "update_reconstructed_volume"
    /\ \E k \in 1..Len(last.helper_D_nda) :
          last.helper_D_nda[k] = 2 /\ last.helper_N_nda[k] = 4
    /\ \E k \in 1..Len(last.helper_D_nda) :
          /\ last.helper_D_nda[k] = 0
          /\ \E n \in 1..NSlices : ResampledAt(n, k) < 0

\* C30: update_reconstructed_volume replaces the voxel data of the volume
\* and nothing else: the volume keeps its size, spacing and origin, its
\* array keeps its length, and no stack and no slice is changed
C30_Frame ==
    [][last'.op = "update_reconstructed_volume" =>
          /\ Grid(HR_volume') = Grid(HR_volume)
          /\ Len(HR_volume'.nda) = Len(HR_volume.nda)
          /\ stacks' = stacks]_vars

C30_Witness ==
    /\ last.op = "update_reconstructed_volume"
    /\ HR_volume.origin = <<1, 0, 0>>
    /\ Len(stacks) = 2
    /\ \E k \in 1..Len(HR_volume.nda) : HR_volume.nda[k] = Finite(1)
    /\ \E k \in 1..Len(HR_volume.nda) : HR_volume.nda[k].kind = "finite"
                                        /\ HR_volume.nda[k].v # 5

\* a backend has run its scipy routine
C26_Ran == last.op = "solve" /\ RunsSolver(last.minimizer, TRUE) /\ last.ret.exc = ""

\* C26: L-BFGS-B starts from the all-zero volume when x0 is None and from
\* x0 clipped at zero when x0 is given, with the bound [0, unbounded) on
\* every element; the starting point of every bounded backend is >= 0
\* elementwise and has N_voxels_HR_volume elements; and an x0 that is
\* given is the starting point of every backend that takes the argument x0
C26_StartingPoint ==
    C26_Ran =>
       /\ last.minimizer = "L-BFGS-B" =>
             /\ last.start = <<IF last.x0 = None THEN Zeros(N_voxels_HR_volume)
                               ELSE Clip(last.x0.v)>>
             /\ Len(last.bounds[1]) = N_voxels_HR_volume
             /\ \A k \in 1..Len(last.bounds[1]) :
                   last.bounds[1][k] = [lower |-> <<0>>, upper |-> NoValue]
       /\ (last.minimizer \in {"L-BFGS-B", "least_squares"}) =>
             /\ Len(last.start[1]) = N_voxels_HR_volume
             /\ \A k \in 1..Len(last.start[1]) : last.start[1][k] >= 0
       /\ (last.x0 # None /\ last.start # NoValue) =>
             last.start[1] \in {last.x0.v, Clip(last.x0.v)}

\* least_squares run with an x0 that is not the volume's array
C26_Reached ==
    /\ C26_Ran
    /\ last.minimizer = "least_squares"
    /\ last.x0 # None
    /\ last.start = <<Zeros(N_voxels_HR_volume)>>
    /\ Clip(last.x0.v) # Zeros(N_voxels_HR_volume)

\* the filters as the constructor leaves them for the configuration
FiltersAfterConstructor ==
    [fw  |-> [Alpha |-> alpha_cut, Covariance |-> NoCovariance,
              Output |-> NoGrid],
     adj |-> [Alpha |-> alpha_cut, Covariance |-> NoCovariance,
              Output |-> Grid(HR_volume)]]

\* what the call e returns when it is the first call on the filters
FirstCall(e) ==
    SliceCall(e.dir, e.x, stacks[e.i].slices[e.j], FiltersAfterConstructor).img

\* C27: for a fixed configuration the image _Ak(x, slice_k) or
\* _Ak_adj(u, slice_k) returns is the one the same call returns as the
\* first call on the filters, whatever slices the filters were applied to
\* before, and the image a call returned stays as it was returned through
\* every later call
C27_HistoryIndependence ==
    /\ last # Idle => ImageOf(last.ret) = FirstCall(last)
    /\ \A t \in DOMAIN evaluations.th :
          ImageOf(evaluations.th[t].ret) = evaluations.th[t].returned

\* a call on a slice of one stack after a call, in the same direction, on a
\* slice of another stack with another spacing, whose image the caller holds
C27_Witness ==
    /\ last # Idle
    /\ evaluations.th # <<>>
    /\ evaluations.th[1].dir = last.dir
    /\ evaluations.th[1].i # last.i
    /\ stacks[1].sitk.spacing # stacks[2].sitk.spacing
    /\ evaluations.th[1].returned # last.returned
    /\ \E k \in 1..Len(last.returned.nda) : last.returned.nda[k] # 0


\* C28: whenever get_data returns a list after whatever read_data calls came
\* before, calls that raised part-way included, every element of the list
\* is a built Stack and none is an unfilled placeholder
C28_NoPartialData ==
    (last.op = "get_data" /\ last.ret.exc = "") =>
       \A k \in 1..Len(last.ret.v) : last.ret.v[k].built

\* get_data returns a list holding a placeholder after a read_data of a
\* MultipleImagesReader that raised on its path check
C28_Reached ==
    /\ last.op = "get_data"
    /\ last.ret.exc = ""
    /\ reader.class = "MultipleImagesReader"
    /\ reader.exc \in {"DirectoryNotExistent", "IOError"}
    /\ \E k \in 1..Len(last.ret.v) : last.ret.v[k] = NoStack
    /\ \E k \in 1..Len(last.ret.v) : last.ret.v[k].built

=============================================================================
